---- MODULE Spec2Model ----
(***************************************************************************)
(* HashFS vault engine (src/src/hashfs-worker.js, lines 1-738) with its    *)
(* chain manager and crypto helpers (src/unnamed/part_001, the crypto.js   *)
(* the worker imports).                                                    *)
(*                                                                         *)
(* Abstractions: BLAKE3 is an injective tagging of its input, an Ed25519   *)
(* signature is the tagged message (only the vault key signs), AES-GCM     *)
(* keeps the plaintext beside a flag telling whether the authentication    *)
(* tag still matches, DEFLATE and JSON are invertible wrappers.  Random    *)
(* blob keys and chain ids are drawn from counters (fresh, never reused).  *)
(* Timestamps (lastModified, ts, lastSaved) are left out.                  *)
(***************************************************************************)
EXTENDS Integers, Sequences, FiniteSets, TLC

VARIABLES
    auth,         \* hashfs-worker.js:6   let auth
    metadata,     \* hashfs-worker.js:10  metadata.files (in-memory index)
    cache,        \* part_001:78          chain manager's Map, in insertion order
    filesStore,   \* IndexedDB object store 'files'
    metaStore,    \* IndexedDB object store 'meta'
    chainsStore,  \* IndexedDB object store 'chains'
    nextKey,      \* how many blob keys generateKey has handed out
    nextChain,    \* how many chain ids generateChainId has handed out
    faultsLeft,   \* how many more store failures may be injected
    tampersLeft,  \* how many more times the stores may be changed from outside
    reqs,         \* save requests suspended at an await (overlap model)
    last,         \* the request handled by the latest step, and its outcome
    history,      \* the saves made so far to one fresh file (pruning model)
    maxCache,     \* part_001:77         createChainManager's maxCache argument
    session,      \* hashfs-worker.js:7   let keys, with the passphrase init was given
    databases,    \* the IndexedDB databases of the origin, by name (vault model)
    host,         \* part_000:8-14       state of useHashFS, with its WorkerManager
    file,         \* useFile.js:11-44    one file instance, with its requests in flight
    chat,         \* part_003            one conversation's files, with the addMessage calls in progress
    globals,      \* hashfs-worker.js:6-10 auth, keys, db, chainManager, metadata by the vault they belong to
    manager       \* WorkerManager.js     one WorkerManager with requestId, pendingRequests and its workers

\* what lies outside one engine with its database
\* the variables of the later models, left alone by the earlier ones
restVars == <<globals, manager>>

appVars == <<session, databases, host, file, chat, restVars>>

\* one engine with its database, and the bookkeeping of its model
engineVars == <<auth, metadata, cache, filesStore, metaStore, chainsStore,
                nextKey, nextChain, faultsLeft, tampersLeft, reqs, last, history,
                maxCache>>

vars == <<auth, metadata, cache, filesStore, metaStore, chainsStore,
          nextKey, nextChain, faultsLeft, tampersLeft, reqs, last, history,
          maxCache, appVars>>

(***************************************************************************)
(* Bounds and inputs                                                       *)
(***************************************************************************)
MaxKeys == 3
MaxChains == 1
MaxFaults == 1
MaxTamper == 2

Names == {"a", "b"}
Contents == {"x", "yy"}
BadMime == "<not a string>"
Mimes == {"text/markdown", "image/png"}
Slots == {1, 2}

DEFAULT_VERSION_LIMIT == 15
META_VERSION == 6
MaxCache == 20
VersionLimits == {0, 1, DEFAULT_VERSION_LIMIT}

Null == -1          \* JavaScript null / an omitted version
NoKey == 0          \* activeKey: null
UnknownChainId == 0 \* the literal 'unknown' of validateChainIntegrity
Undefined == <<>>   \* a property an object does not have

Keys == 1..MaxKeys
ChainIds == 1..MaxChains

(***************************************************************************)
(* Functions with a finite domain, as JavaScript objects / object stores   *)
(***************************************************************************)
Has(f, k) == k \in DOMAIN f
Put(f, k, v) == [x \in (DOMAIN f) \cup {k} |-> IF x = k THEN v ELSE f[x]]
Del(f, k) == [x \in (DOMAIN f) \ {k} |-> f[x]]
DelAll(f, ks) == [x \in (DOMAIN f) \ ks |-> f[x]]
Empty == [x \in {} |-> 0]
Range(s) == {s[i] : i \in DOMAIN s}

(***************************************************************************)
(* cryptoUtils and compress                                                *)
(***************************************************************************)
Hash(bytes) == <<"blake3", bytes>>
Sign(hash) == <<"ed25519", hash>>
Verify(hash, sig) == sig = <<"ed25519", hash>>
Encrypt(bytes) == [data |-> bytes, tagOk |-> TRUE]
CanDecrypt(payload) == payload.tagOk
Decrypt(payload) == payload.data
Deflate(bytes) == [deflated |-> bytes]
Inflate(bytes) == bytes.deflated
ByteLength(bytes) == Len(bytes)
\* length of the DEFLATE stream of a short input: the input plus framing
DeflatedLength(bytes) == Len(bytes) + 2
ToJSON(value) == [json |-> value]
ParseJSON(bytes) == bytes.json

\* let keys = null (hashfs-worker.js:7)
NoSession == [keys |-> Undefined, passphrase |-> Undefined]

\* part_000:8-14 and WorkerManager's constructor: state.auth is a ref; refs
\* holds the value of every ref created for it, authRef says which one
\* state.auth is now.  worker is 0 while no worker exists; spawned counts the
\* workers created, clock the inits answered (their entropy).
NoHost ==
    [authRef |-> 1, refs |-> <<FALSE>>, files |-> {}, vaultHash |-> Undefined,
     sessionHash |-> Undefined, worker |-> 0, spawned |-> 0, clock |-> 0]

\* useFile.js:14-20: the refs of a file instance.  created tells whether
\* useFile was called; initial and autoSave are its arguments; watched is the
\* ref its watcher observes; timer tells whether saveTimer is armed; pending
\* holds the replies of the worker not yet delivered; synced is the content
\* last loaded from or saved to the vault, NotSynced before the first.
NotSynced == "<none>"
\* the filename argument of useFile/createFileInstance, which the methods of the
\* instance close over; filename below is the property instance.filename
InstName == "a"
NoFile ==
    [created |-> FALSE, filename |-> InstName, initial |-> "", autoSave |-> FALSE,
     bytes |-> "",
     mime |-> "text/plain", dirty |-> FALSE, currentVersion |-> 0,
     availableVersions |-> [min |-> 0, max |-> 0], watched |-> 0, timer |-> FALSE,
     pending |-> <<>>, synced |-> NotSynced]

\* useChat (part_003): the files of one conversation by path, the addMessage
\* calls in progress, how many calls were issued, the messages returned
MaxMessages == 3    \* addMessage calls issued in a behaviour
MaxCalls == 2       \* addMessage calls in progress at the same time
ChunkSize == 2      \* cfg.chunkSize

Calls == 1..MaxCalls

IdleCall == [pc |-> "idle"]
NoChat ==
    [files |-> Empty, calls |-> [c \in Calls |-> IdleCall], issued |-> 0,
     returned |-> {}]

\* the worker's module state as the script leaves it (hashfs-worker.js:6-10):
\* index is the name of the database metadata.files was read from, chainKey
\* the encryption key the chain manager was created with
NoGlobals ==
    [auth |-> FALSE, keys |-> Undefined, passphrase |-> Undefined, db |-> Undefined,
     index |-> Undefined, chainKey |-> Undefined]

\* new WorkerManager() with the module's requestId = 0 and empty pendingRequests
\* (WorkerManager.js:3-17).  inits are the initialisations started, readyPromise
\* the index of one of them or 0 for null; workers are the workers constructed
\* and not terminated; requests are the sendToWorker calls with their promises;
\* pendingRequests maps an id to the call it settles; timeouts are the ids with
\* a live timer; messages are on their way from a worker to handleMessage.
NoManager ==
    [worker |-> 0, readyPromise |-> 0, inits |-> <<>>, workers |-> {}, built |-> 0,
     failures |-> 0, terminated |-> 0, requestId |-> 0, pendingRequests |-> Empty,
     timeouts |-> {}, requests |-> <<>>, messages |-> {}]

\* no key derived, no database created, the host as the module leaves it, no
\* file instance, no conversation, a new worker manager
AppIdle ==
    /\ session = NoSession
    /\ databases = Empty
    /\ host = NoHost
    /\ file = NoFile
    /\ chat = NoChat
    /\ globals = NoGlobals
    /\ manager = NoManager

(***************************************************************************)
(* Chain manager                                                           *)
(***************************************************************************)
EmptyChain ==
    [versions |-> <<>>, pruned |-> [count |-> 0, oldestKept |-> 0],
     chainHash |-> Undefined, chainSig |-> Undefined]

CacheHas(c, id) == \E i \in 1..Len(c) : c[i].id = id
CacheGet(c, id) == c[CHOOSE i \in 1..Len(c) : c[i].id = id].chain
CacheDelete(c, id) == SelectSeq(c, LAMBDA e : e.id # id)
\* Map.set: an existing key keeps its place in the insertion order
CacheSet(c, id, chain) ==
    IF CacheHas(c, id)
    THEN [i \in 1..Len(c) |->
            IF c[i].id = id THEN [id |-> id, chain |-> chain] ELSE c[i]]
    ELSE Append(c, [id |-> id, chain |-> chain])
\* if (cache.size >= maxCache) cache.delete(cache.keys().next().value)
CacheEvict(c) == IF Len(c) >= maxCache THEN Tail(c) ELSE c

\* The stored chain record passes getChain's checks.
StoredChainOk(stored) ==
    /\ CanDecrypt(stored)
    /\ stored.sig # Undefined
    /\ Verify(Hash(Decrypt(stored)), stored.sig)

\* getChain(chainId): [chain, cache]
GetChain(e, chainId) ==
    IF CacheHas(e.cache, chainId)
    THEN [chain |-> CacheGet(e.cache, chainId),
          cache |-> CacheSet(CacheDelete(e.cache, chainId), chainId,
                             CacheGet(e.cache, chainId))]
    ELSE IF ~Has(e.chainsStore, chainId)
    THEN [chain |-> EmptyChain, cache |-> e.cache]
    ELSE IF ~StoredChainOk(e.chainsStore[chainId])
    THEN [chain |-> EmptyChain, cache |-> e.cache]
    ELSE LET chain == ParseJSON(Inflate(Decrypt(e.chainsStore[chainId])))
         IN [chain |-> chain,
             cache |-> CacheSet(CacheEvict(e.cache), chainId, chain)]

\* what saveChain writes under chainId
StoredChain(chain) ==
    [data |-> Deflate(ToJSON(chain)), tagOk |-> TRUE,
     sig |-> Sign(Hash(Deflate(ToJSON(chain))))]

\* saveChain(chainId, chain), no failure: engine state afterwards
SaveChain(e, chainId, chain) ==
    [e EXCEPT !.chainsStore = Put(e.chainsStore, chainId, StoredChain(chain)),
              !.cache = CacheSet(CacheEvict(e.cache), chainId, chain)]

\* computeChainHash(versions)
ComputeChainHash(versions) ==
    IF Len(versions) = 0 THEN Hash(<<>>)
    ELSE Hash([i \in 1..Len(versions) |-> versions[i].hash])

(***************************************************************************)
(* Engine state as one value, so that a handler is a function of it        *)
(***************************************************************************)
Eng ==
    [auth |-> auth, metadata |-> metadata, cache |-> cache,
     filesStore |-> filesStore, metaStore |-> metaStore,
     chainsStore |-> chainsStore, nextKey |-> nextKey, nextChain |-> nextChain]

\* the reply posted by self.onmessage: {id, success, result} or {id, success: false, error}
NoReply ==
    [ok |-> FALSE, error |-> "", bytes |-> "", mime |-> "", size |-> Null,
     version |-> Null, currentVersion |-> Null, recovered |-> FALSE,
     unchanged |-> FALSE, failedAt |-> "none"]
Failure(error, step) == [NoReply EXCEPT !.error = error, !.failedAt = step]
Success == [NoReply EXCEPT !.ok = TRUE]

(***************************************************************************)
(* Metadata index                                                          *)
(***************************************************************************)
\* isValidMetadata(data), for data.files = files
IsValidMetadata(files) == \A n \in DOMAIN files : files[n].mime # BadMime

\* the document saveMetadata encrypts
MetadataDocument(files) == [files |-> files, schemaVersion |-> META_VERSION]

\* saveMetadata(tx), no failure: the 'meta' store afterwards
SaveMetadata(e) ==
    [e EXCEPT !.metaStore =
        Put(e.metaStore, "index", Encrypt(ToJSON(MetadataDocument(e.metadata))))]

\* saveMetadata throws: validation fails, or the injected store fault hits its put
SaveMetadataFails(e, fault) == ~IsValidMetadata(e.metadata) \/ fault = "metaPut"
SaveMetadataError(e) ==
    IF ~IsValidMetadata(e.metadata)
    THEN Failure("Invalid metadata structure", "validate")
    ELSE Failure("store failure", "metaPut")

\* migrateMetadata(data)
MigrateMetadata(data) ==
    IF data.schemaVersion >= META_VERSION THEN data
    ELSE [data EXCEPT !.schemaVersion = META_VERSION]

\* rebuildMetadata(): reads the raw records of 'chains' (not through getChain)
RecoveredName(chainId) == "recovered_" \o ToString(chainId)
RebuildMetadata(e) ==
    LET usable == {id \in DOMAIN e.chainsStore :
                     /\ "versions" \in DOMAIN e.chainsStore[id]
                     /\ Len(e.chainsStore[id].versions) > 0
                     /\ Has(e.filesStore,
                            e.chainsStore[id].versions[Len(e.chainsStore[id].versions)].key)}
        latest(id) == e.chainsStore[id].versions[Len(e.chainsStore[id].versions)]
        idOf(n) == CHOOSE id \in usable : RecoveredName(id) = n
    IN [n \in {RecoveredName(id) : id \in usable} |->
          [mime |-> "application/octet-stream", chainId |-> idOf(n),
           headVersion |-> latest(idOf(n)).version,
           lastSize |-> latest(idOf(n)).size, lastCompressedSize |-> 0,
           activeKey |-> latest(idOf(n)).key]]

\* loadMetadata()
LoadMetadata(e) ==
    IF ~Has(e.metaStore, "index") THEN Empty
    ELSE IF /\ CanDecrypt(e.metaStore["index"])
            /\ IsValidMetadata(ParseJSON(Decrypt(e.metaStore["index"])).files)
    THEN MigrateMetadata(ParseJSON(Decrypt(e.metaStore["index"]))).files
    ELSE RebuildMetadata(e)

(***************************************************************************)
(* handlers.init                                                           *)
(***************************************************************************)
InitHandler(e) ==
    [eng |-> [e EXCEPT !.auth = TRUE, !.metadata = LoadMetadata(e), !.cache = <<>>],
     res |-> Success]

(***************************************************************************)
(* handlers.load                                                           *)
(***************************************************************************)
\* a blob under key that decrypts (and inflates)
BlobUsable(e, key) == Has(e.filesStore, key) /\ CanDecrypt(e.filesStore[key])
BlobContent(e, key) == Inflate(Decrypt(e.filesStore[key]))

\* a faulty variant of the walk below: it starts at the oldest entry
RecoverFromOldestVersion(e, meta, chain) ==
    LET n == Len(chain.versions)
        ok == {i \in 1..(n - 1) :
                 chain.versions[i].key # NoKey /\ BlobUsable(e, chain.versions[i].key)}
    IN IF n < 2 \/ ok = {} THEN 0
       ELSE CHOOSE i \in ok : \A j \in ok : i <= j

\* recoverFromPreviousVersion(meta, chain): index of the entry recovered to, 0 for null
RecoverFromPreviousVersion(e, meta, chain) ==
    LET n == Len(chain.versions)
        ok == {i \in 1..(n - 1) :
                 chain.versions[i].key # NoKey /\ BlobUsable(e, chain.versions[i].key)}
    IN IF n < 2 \/ ok = {} THEN 0
       ELSE CHOOSE i \in ok : \A j \in ok : j <= i

\* validateChainIntegrity(chain): [eng, error] with error "" when it returns
VersionIntact(e, v) ==
    \/ v.key = NoKey
    \/ ~Has(e.filesStore, v.key)
    \/ /\ CanDecrypt(e.filesStore[v.key])
       /\ Hash(BlobContent(e, v.key)) = v.hash
       /\ Verify(v.hash, v.sig)
ValidateChainIntegrity(e, chainId, chain) ==
    LET signed == chain.chainHash # Undefined /\ chain.chainSig # Undefined
        upgraded == [chain EXCEPT !.chainHash = ComputeChainHash(chain.versions),
                                  !.chainSig = Sign(ComputeChainHash(chain.versions))]
        legacy == ~signed /\ Len(chain.versions) > 0
        e1 == IF legacy
              THEN SaveChain([e EXCEPT !.cache =
                                 IF CacheHas(e.cache, chainId)
                                 THEN CacheSet(e.cache, chainId, upgraded)
                                 ELSE e.cache],
                             UnknownChainId, upgraded)
              ELSE e
    IN IF signed /\ ComputeChainHash(chain.versions) # chain.chainHash
       THEN [eng |-> e, error |-> "Chain hash mismatch - version history corrupted"]
       ELSE IF signed /\ ~Verify(chain.chainHash, chain.chainSig)
       THEN [eng |-> e, error |-> "Chain signature invalid - version history tampered"]
       ELSE IF \E i \in 1..Len(chain.versions) : ~VersionIntact(e1, chain.versions[i])
       THEN [eng |-> e1, error |-> "Chain validation failed"]
       ELSE [eng |-> e1, error |-> ""]

\* the index of the target version in chain.versions, 0 when there is none
TargetIndex(chain, version) ==
    IF version = Null THEN Len(chain.versions)
    ELSE IF \E i \in 1..Len(chain.versions) : chain.versions[i].version = version
    THEN CHOOSE i \in 1..Len(chain.versions) :
            /\ chain.versions[i].version = version
            /\ \A j \in 1..(i - 1) : chain.versions[j].version # version
    ELSE 0

\* a faulty variant of the operator below: recovery and removal are not
\* limited to version === null
LoadMissingBlobAnyVersion(e, filename, version, chain, fault) ==
    LET meta == e.metadata[filename]
        r == RecoverFromPreviousVersion(e, meta, chain)
        entry == chain.versions[r]
        recovered == [e EXCEPT !.metadata[filename] =
                        [meta EXCEPT !.headVersion = entry.version,
                                     !.activeKey = entry.key,
                                     !.lastSize = ByteLength(BlobContent(e, entry.key))]]
        removed == [e EXCEPT !.metadata = Del(e.metadata, filename)]
        corrupted == Failure("File is corrupted", "blob")
    IN IF r # 0
       THEN IF SaveMetadataFails(recovered, fault)
            THEN [eng |-> recovered, res |-> SaveMetadataError(recovered)]
            ELSE [eng |-> SaveMetadata(recovered),
                  res |-> [Success EXCEPT !.bytes = BlobContent(e, entry.key),
                                          !.version = entry.version,
                                          !.recovered = TRUE,
                                          !.mime = meta.mime,
                                          !.currentVersion = entry.version]]
       ELSE IF SaveMetadataFails(removed, fault)
            THEN [eng |-> removed, res |-> SaveMetadataError(removed)]
            ELSE [eng |-> SaveMetadata(removed), res |-> corrupted]

\* a latest load whose head blob is missing (lines 66-79)
LoadMissingBlob(e, filename, version, chain, fault) ==
    LET meta == e.metadata[filename]
        r == RecoverFromPreviousVersion(e, meta, chain)
        entry == chain.versions[r]
        recovered == [e EXCEPT !.metadata[filename] =
                        [meta EXCEPT !.headVersion = entry.version,
                                     !.activeKey = entry.key,
                                     !.lastSize = ByteLength(BlobContent(e, entry.key))]]
        removed == [e EXCEPT !.metadata = Del(e.metadata, filename)]
        corrupted == Failure("File is corrupted", "blob")
    IN IF version # Null THEN [eng |-> e, res |-> corrupted]
       ELSE IF r # 0
       THEN IF SaveMetadataFails(recovered, fault)
            THEN [eng |-> recovered, res |-> SaveMetadataError(recovered)]
            ELSE [eng |-> SaveMetadata(recovered),
                  res |-> [Success EXCEPT !.bytes = BlobContent(e, entry.key),
                                          !.version = entry.version,
                                          !.recovered = TRUE,
                                          !.mime = meta.mime,
                                          !.currentVersion = entry.version]]
       ELSE IF SaveMetadataFails(removed, fault)
            THEN [eng |-> removed, res |-> SaveMetadataError(removed)]
            ELSE [eng |-> SaveMetadata(removed), res |-> corrupted]

\* decrypt, inflate, rehash, verify, validate, return (lines 81-108)
LoadVerify(e, filename, chain, target, validate) ==
    LET meta == e.metadata[filename]
        inflated == BlobContent(e, target.key)
        val == ValidateChainIntegrity(e, meta.chainId, chain)
    IN IF ~CanDecrypt(e.filesStore[target.key])
       THEN [eng |-> e, res |-> Failure("decrypt failure", "decrypt")]
       ELSE IF Hash(inflated) # target.hash
       THEN [eng |-> e,
             res |-> Failure("Data corruption detected - hash mismatch", "hash")]
       ELSE IF ~Verify(Hash(inflated), target.sig)
       THEN [eng |-> e,
             res |-> Failure("Signature verification failed - data may be tampered", "sig")]
       ELSE IF validate /\ val.error # ""
       THEN [eng |-> val.eng, res |-> Failure(val.error, "validate")]
       ELSE [eng |-> IF validate THEN val.eng ELSE e,
             res |-> [Success EXCEPT
                        !.bytes = inflated, !.mime = meta.mime,
                        !.size = ByteLength(inflated),
                        !.version = target.version,
                        !.currentVersion = meta.headVersion]]

\* handlers.load(filename, version, validate): [eng, res]
Load(e, filename, version, validate, fault) ==
    IF ~e.auth THEN [eng |-> e, res |-> Failure("Not authenticated", "auth")]
    ELSE IF ~Has(e.metadata, filename) \/ e.metadata[filename].activeKey = NoKey
    THEN [eng |-> e, res |-> [Success EXCEPT !.mime = "text/markdown"]]
    ELSE LET gc == GetChain(e, e.metadata[filename].chainId)
             e1 == [e EXCEPT !.cache = gc.cache]
             t == TargetIndex(gc.chain, version)
         IN IF t = 0
            THEN [eng |-> e1, res |-> Failure("Version not found", "version")]
            ELSE IF ~Has(e1.filesStore, gc.chain.versions[t].key)
            THEN LoadMissingBlob(e1, filename, version, gc.chain, fault)
            ELSE LoadVerify(e1, filename, gc.chain, gc.chain.versions[t], validate)

(***************************************************************************)
(* handlers.save                                                           *)
(***************************************************************************)
\* the record a first save creates (lines 120-130)
NewFileRecord(mime, chainId, bytes) ==
    [mime |-> mime, chainId |-> chainId, headVersion |-> 0,
     lastSize |-> ByteLength(bytes), lastCompressedSize |-> 0, activeKey |-> NoKey]

\* the record after the assignments of lines 160-165
UpdatedRecord(meta, mime, version, bytes, key) ==
    [meta EXCEPT !.mime = mime, !.headVersion = version,
                 !.lastSize = ByteLength(bytes),
                 !.lastCompressedSize = DeflatedLength(bytes),
                 !.activeKey = key]

\* the entry pushed on the chain (lines 172-176)
VersionEntry(version, bytes, key) ==
    [version |-> version, hash |-> Hash(bytes), sig |-> Sign(Hash(bytes)),
     key |-> key, size |-> ByteLength(bytes)]

\* a faulty variant of the loop below: while (length >= versionLimit)
DropCountOffByOne(versions, versionLimit) ==
    IF Len(versions) >= versionLimit THEN Len(versions) - versionLimit + 1 ELSE 0

\* while (chain.versions.length > versionLimit) chain.versions.shift()
DropCount(versions, versionLimit) ==
    IF Len(versions) > versionLimit THEN Len(versions) - versionLimit ELSE 0
KeptVersions(versions, versionLimit) ==
    SubSeq(versions, DropCount(versions, versionLimit) + 1, Len(versions))
DroppedKeys(versions, versionLimit) ==
    {versions[i].key : i \in 1..DropCount(versions, versionLimit)} \ {NoKey}

\* a faulty variant of the operator below: chainHash is taken before the pruning
ChainWithStaleHash(chain, entry, versionLimit) ==
    LET pushed == Append(chain.versions, entry)
        kept == KeptVersions(pushed, versionLimit)
    IN [versions |-> kept,
        pruned |-> [count |-> chain.pruned.count + DropCount(pushed, versionLimit),
                    oldestKept |-> IF Len(kept) > 0 THEN kept[1].version
                                   ELSE chain.pruned.oldestKept],
        chainHash |-> ComputeChainHash(pushed),
        chainSig |-> Sign(ComputeChainHash(pushed))]

\* the chain after push, prune, oldestKept, chainHash and chainSig (lines 172-193)
ChainWithVersion(chain, entry, versionLimit) ==
    LET pushed == Append(chain.versions, entry)
        kept == KeptVersions(pushed, versionLimit)
    IN [versions |-> kept,
        pruned |-> [count |-> chain.pruned.count + DropCount(pushed, versionLimit),
                    oldestKept |-> IF Len(kept) > 0 THEN kept[1].version
                                   ELSE chain.pruned.oldestKept],
        chainHash |-> ComputeChainHash(kept),
        chainSig |-> Sign(ComputeChainHash(kept))]

\* a chain object the cache holds is changed in place
MutateCached(e, chainId, chain) ==
    IF CacheHas(e.cache, chainId)
    THEN [e EXCEPT !.cache = CacheSet(e.cache, chainId, chain)]
    ELSE e

\* lines 170-211: the chain gets the version, old blobs are deleted
SaveAppend(e, filename, bytes, versionLimit, version, key, fault) ==
    LET chainId == e.metadata[filename].chainId
        gc == GetChain(e, chainId)
        chain == ChainWithVersion(gc.chain, VersionEntry(version, bytes, key), versionLimit)
        toDelete == DroppedKeys(Append(gc.chain.versions, VersionEntry(version, bytes, key)),
                                versionLimit)
        e1 == MutateCached([e EXCEPT !.cache = gc.cache], chainId, chain)
        e2 == SaveChain(e1, chainId, chain)
    IN IF fault = "chainSave"
       THEN [eng |-> e1, res |-> Failure("store failure", "chainSave")]
       ELSE IF toDelete # {} /\ fault = "cleanup"
       THEN [eng |-> e2, res |-> Failure("store failure", "cleanup")]
       ELSE [eng |-> [e2 EXCEPT !.filesStore = DelAll(e2.filesStore, toDelete)],
             res |-> [Success EXCEPT !.version = version]]

\* lines 149-168: sign, allocate the key, compress, encrypt, transaction A
SaveNewVersion(e, filename, bytes, mime, versionLimit, fault) ==
    LET meta == e.metadata[filename]
        key == e.nextKey + 1
        version == meta.headVersion + 1
        e1 == [e EXCEPT !.nextKey = key]
        e2 == [e1 EXCEPT !.metadata[filename] =
                  UpdatedRecord(meta, mime, version, bytes, key)]
        withBlob(x) == [x EXCEPT !.filesStore =
                            Put(x.filesStore, key, Encrypt(Deflate(bytes)))]
    IN IF fault = "blobPut"
       THEN [eng |-> e1, res |-> Failure("store failure", fault)]
       ELSE IF ~IsValidMetadata(e2.metadata)
       \* saveMetadata throws after the blob put was requested: nothing aborts
       \* the transaction, which commits the put
       THEN [eng |-> withBlob(e2), res |-> SaveMetadataError(e2)]
       ELSE IF fault \in {"metaPut", "commit"}
       THEN [eng |-> e2, res |-> Failure("store failure", fault)]
       ELSE SaveAppend(SaveMetadata(withBlob(e2)), filename, bytes, versionLimit,
                       version, key, fault)

\* handlers.save(filename, {bytes, mime}, {versionLimit}): [eng, res]
Save(e, filename, bytes, mime, versionLimit, fault) ==
    IF ~e.auth THEN [eng |-> e, res |-> Failure("Not authenticated", "auth")]
    ELSE
    LET e0 == IF Has(e.metadata, filename) THEN e
              ELSE [e EXCEPT !.nextChain = e.nextChain + 1,
                             !.metadata = Put(e.metadata, filename,
                                 NewFileRecord(mime, e.nextChain + 1, bytes))]
        meta == e0.metadata[filename]
        gc == GetChain(e0, meta.chainId)
        e1 == [e0 EXCEPT !.cache = gc.cache]
        n == Len(gc.chain.versions)
        same == n > 0 /\ gc.chain.versions[n].hash = Hash(bytes)
        e2 == [e1 EXCEPT !.metadata[filename].mime = mime]
    IN IF same /\ meta.mime = mime
       THEN [eng |-> e1, res |-> [Success EXCEPT !.unchanged = TRUE]]
       ELSE IF same /\ ~SaveMetadataFails(e2, fault)
       THEN [eng |-> SaveMetadata(e2), res |-> [Success EXCEPT !.unchanged = TRUE]]
       ELSE IF same
       \* saveMetadata threw inside the try: the catch logs it and the save goes on
       THEN SaveNewVersion(e2, filename, bytes, mime, versionLimit, "none")
       ELSE SaveNewVersion(e1, filename, bytes, mime, versionLimit, fault)

(***************************************************************************)
(* handlers.delete and handlers.rename                                     *)
(***************************************************************************)
Delete(e, filename, fault) ==
    IF ~e.auth THEN [eng |-> e, res |-> Failure("Not authenticated", "auth")]
    ELSE IF ~Has(e.metadata, filename) THEN [eng |-> e, res |-> Success]
    ELSE
    LET meta == e.metadata[filename]
        gc == GetChain(e, meta.chainId)
        keysToDelete ==
            ({gc.chain.versions[i].key : i \in 1..Len(gc.chain.versions)}
                \cup {meta.activeKey}) \ {NoKey}
        e1 == [e EXCEPT !.cache = gc.cache, !.metadata = Del(e.metadata, filename)]
        e2 == [e1 EXCEPT !.filesStore = DelAll(e.filesStore, keysToDelete),
                         !.chainsStore = Del(e.chainsStore, meta.chainId)]
    IN IF ~IsValidMetadata(e1.metadata)
       \* the deletes were requested and nothing aborts the transaction
       THEN [eng |-> e2, res |-> SaveMetadataError(e1)]
       ELSE IF fault \in {"metaPut", "commit"}
       THEN [eng |-> e1, res |-> Failure("store failure", fault)]
       ELSE [eng |-> SaveMetadata(e2), res |-> Success]

\* a faulty variant of handlers.rename: the check for an existing new name is missing
RenameOverwriting(e, oldName, newName, fault) ==
    IF ~e.auth \/ newName = ""
    THEN [eng |-> e, res |-> Failure("Invalid rename operation", "args")]
    ELSE IF ~Has(e.metadata, oldName)
    THEN [eng |-> e, res |-> Failure("File not found", "args")]
    ELSE
    LET e1 == [e EXCEPT !.metadata =
                  Del(Put(e.metadata, newName, e.metadata[oldName]), oldName)]
    IN IF SaveMetadataFails(e1, fault)
       THEN [eng |-> e1, res |-> SaveMetadataError(e1)]
       ELSE [eng |-> SaveMetadata(e1), res |-> Success]

Rename(e, oldName, newName, fault) ==
    IF ~e.auth \/ newName = "" \/ Has(e.metadata, newName)
    THEN [eng |-> e, res |-> Failure("Invalid rename operation", "args")]
    ELSE IF ~Has(e.metadata, oldName)
    THEN [eng |-> e, res |-> Failure("File not found", "args")]
    ELSE
    LET e1 == [e EXCEPT !.metadata =
                  Del(Put(e.metadata, newName, e.metadata[oldName]), oldName)]
    IN IF SaveMetadataFails(e1, fault)
       THEN [eng |-> e1, res |-> SaveMetadataError(e1)]
       ELSE [eng |-> SaveMetadata(e1), res |-> Success]

(***************************************************************************)
(* The engine handling one request at a time                               *)
(***************************************************************************)
LoadVersions == {Null} \cup (1..MaxKeys)
\* The store failures injected.  In save, "blobPut" stands for any failure of
\* lines 153-157 (deflate, encrypt, the blob put) and "commit" for a failed
\* metadata put or commit of transaction A: each pair leaves the same state.
SaveFaults == {"none", "blobPut", "commit", "chainSave", "cleanup"}
WriteFaults == {"none", "commit"}
MetaFaults == {"none", "metaPut"}

NoRequest ==
    [op |-> "none", name |-> "", bytes |-> "", mime |-> "", limit |-> Null,
     version |-> Null, validate |-> FALSE, newName |-> ""]

\* how a reply is remembered: the step that failed, or the kind of success
Outcome(res) ==
    IF ~res.ok THEN res.failedAt
    ELSE IF res.recovered THEN "recovered"
    ELSE IF res.unchanged THEN "unchanged"
    ELSE "ok"

\* the engine state after a handler, and the request with its outcome
Handled(out, req, fault) ==
    /\ fault = "none" \/ (faultsLeft > 0 /\ out.res.failedAt = fault)
    /\ faultsLeft' = IF fault = "none" THEN faultsLeft ELSE faultsLeft - 1
    /\ auth' = out.eng.auth
    /\ metadata' = out.eng.metadata
    /\ cache' = out.eng.cache
    /\ filesStore' = out.eng.filesStore
    /\ metaStore' = out.eng.metaStore
    /\ chainsStore' = out.eng.chainsStore
    /\ nextKey' = out.eng.nextKey
    /\ nextChain' = out.eng.nextChain
    /\ last' = [op |-> req.op, name |-> req.name, result |-> Outcome(out.res)]
    /\ UNCHANGED <<tampersLeft, reqs, history, maxCache, appVars>>

DoInit ==
    /\ reqs = Empty
    /\ Handled(InitHandler(Eng), [NoRequest EXCEPT !.op = "init"], "none")

DoLoad ==
    \E f \in Names, v \in LoadVersions, validate \in BOOLEAN, fault \in MetaFaults :
        /\ reqs = Empty
        /\ Handled(Load(Eng, f, v, validate, fault),
                   [NoRequest EXCEPT !.op = "load", !.name = f, !.version = v,
                                     !.validate = validate], fault)

DoSave ==
    \E f \in Names, bytes \in Contents, mime \in Mimes,
       limit \in VersionLimits, fault \in SaveFaults :
        /\ reqs = Empty
        /\ nextKey < MaxKeys
        /\ Has(metadata, f) \/ nextChain < MaxChains
        /\ Handled(Save(Eng, f, bytes, mime, limit, fault),
                   [NoRequest EXCEPT !.op = "save", !.name = f, !.bytes = bytes,
                                     !.mime = mime, !.limit = limit], fault)

DoDelete ==
    \E f \in Names, fault \in WriteFaults :
        /\ reqs = Empty
        /\ Handled(Delete(Eng, f, fault),
                   [NoRequest EXCEPT !.op = "delete", !.name = f], fault)

DoRename ==
    \E old \in Names, new \in Names \cup {""}, fault \in MetaFaults :
        /\ reqs = Empty
        /\ Handled(Rename(Eng, old, new, fault),
                   [NoRequest EXCEPT !.op = "rename", !.name = old, !.newName = new],
                   fault)

(***************************************************************************)
(* The stores changed from outside the engine                              *)
(***************************************************************************)
Tampered(what) ==
    /\ reqs = Empty
    /\ tampersLeft > 0
    /\ tampersLeft' = tampersLeft - 1
    /\ last' = [op |-> what, name |-> "", result |-> "ok"]
    /\ UNCHANGED <<auth, metadata, cache, nextKey, nextChain, faultsLeft, reqs, history,
                   maxCache, appVars>>

LoseBlob ==
    \E k \in DOMAIN filesStore :
        /\ Tampered("lose blob")
        /\ filesStore' = Del(filesStore, k)
        /\ UNCHANGED <<metaStore, chainsStore>>

AlterBlob ==
    \E k \in DOMAIN filesStore :
        /\ filesStore[k].tagOk
        /\ Tampered("alter blob")
        /\ filesStore' = [filesStore EXCEPT ![k].tagOk = FALSE]
        /\ UNCHANGED <<metaStore, chainsStore>>

ExchangeBlobs ==
    \E k1, k2 \in DOMAIN filesStore :
        /\ k1 < k2
        /\ filesStore[k1] # filesStore[k2]
        /\ Tampered("exchange blobs")
        /\ filesStore' = [filesStore EXCEPT ![k1] = filesStore[k2],
                                            ![k2] = filesStore[k1]]
        /\ UNCHANGED <<metaStore, chainsStore>>

AlterChain ==
    \E id \in DOMAIN chainsStore :
        /\ chainsStore[id].tagOk
        /\ Tampered("alter chain")
        /\ chainsStore' = [chainsStore EXCEPT ![id].tagOk = FALSE]
        /\ UNCHANGED <<filesStore, metaStore>>

RemoveChainSig ==
    \E id \in DOMAIN chainsStore :
        /\ chainsStore[id].sig # Undefined
        /\ Tampered("remove chain sig")
        /\ chainsStore' = [chainsStore EXCEPT ![id].sig = Undefined]
        /\ UNCHANGED <<filesStore, metaStore>>

Construct ==
    /\ auth = FALSE
    /\ metadata = Empty
    /\ cache = <<>>
    /\ filesStore = Empty
    /\ metaStore = Empty
    /\ chainsStore = Empty
    /\ nextKey = 0
    /\ nextChain = 0
    /\ reqs = Empty
    /\ last = [op |-> "none", name |-> "", result |-> "ok"]
    /\ AppIdle

\* the worker creates the chain manager with maxCache undefined (lines 23-26):
\* the default applies
DefaultCache == maxCache = MaxCache

\* no pruning run is followed
NoHistory == [name |-> "", limit |-> 0, saved |-> <<>>]

\* The engine with store failures, its stores left alone.
Init ==
    /\ Construct /\ DefaultCache
    /\ faultsLeft = MaxFaults /\ tampersLeft = 0 /\ history = NoHistory

Next ==
    \/ DoInit
    \/ DoLoad
    \/ DoSave
    \/ DoDelete
    \/ DoRename

Spec == Init /\ [][Next]_vars

\* The engine on stores that lose or change blobs and chains, no store failures.
InitTamper ==
    Construct /\ DefaultCache /\ faultsLeft = 0 /\ tampersLeft = MaxTamper /\ history = NoHistory

NextTamper ==
    \/ Next
    \/ LoseBlob
    \/ AlterBlob
    \/ ExchangeBlobs
    \/ AlterChain
    \/ RemoveChainSig

SpecTamper == InitTamper /\ [][NextTamper]_vars

(***************************************************************************)
(* Overlapping saves.  self.onmessage is async and nothing queues the      *)
(* messages, so a save message is handled while another save is suspended  *)
(* at an await.  A save is cut at the awaits that wait for another task:   *)
(* compress.deflate (line 153), tx.done (line 168) and the deflate inside  *)
(* saveChain (part_001 line 122).  With two slots a chain object is either *)
(* the one the cache holds (shared) or held by one request alone.          *)
(***************************************************************************)
InFlight == {s \in DOMAIN reqs : reqs[s].pc # "done"}

Suspended(f, bytes, mime, limit) ==
    [name |-> f, bytes |-> bytes, mime |-> mime, limit |-> limit,
     key |-> NoKey, version |-> Null, pc |-> "done", result |-> "ok",
     snapshot |-> EmptyChain, obj |-> EmptyChain, shared |-> FALSE,
     toDelete |-> {}, startHead |-> 0, overlapped |-> FALSE]

SetEngine(e) ==
    /\ auth' = e.auth
    /\ metadata' = e.metadata
    /\ cache' = e.cache
    /\ filesStore' = e.filesStore
    /\ metaStore' = e.metaStore
    /\ chainsStore' = e.chainsStore
    /\ nextKey' = e.nextKey
    /\ nextChain' = e.nextChain
    /\ UNCHANGED <<faultsLeft, tampersLeft, maxCache, appVars>>

\* lines 112-153: up to the await of compress.deflate, or the unchanged reply
SaveStart ==
    \E s \in Calls, f \in Names, bytes \in Contents, mime \in {"text/markdown"},
       limit \in {1, DEFAULT_VERSION_LIMIT} :
        /\ auth
        /\ ~Has(reqs, s)
        /\ \A o \in Calls : o < s => Has(reqs, o)
        /\ nextKey < MaxKeys
        /\ Has(metadata, f) \/ nextChain < MaxChains
        /\ LET e0 == IF Has(metadata, f) THEN Eng
                     ELSE [Eng EXCEPT !.nextChain = nextChain + 1,
                                      !.metadata = Put(metadata, f,
                                          NewFileRecord(mime, nextChain + 1, bytes))]
               meta == e0.metadata[f]
               gc == GetChain(e0, meta.chainId)
               e1 == [e0 EXCEPT !.cache = gc.cache]
               n == Len(gc.chain.versions)
               same == n > 0 /\ gc.chain.versions[n].hash = Hash(bytes)
               e2 == [e1 EXCEPT !.metadata[f].mime = mime]
               others == {o \in InFlight : reqs[o].name = f}
               ctx == [Suspended(f, bytes, mime, limit) EXCEPT
                          !.startHead = IF Has(metadata, f)
                                        THEN metadata[f].headVersion ELSE 0,
                          !.overlapped = others # {}]
               marked == [o \in DOMAIN reqs |->
                            IF o \in others THEN [reqs[o] EXCEPT !.overlapped = TRUE]
                            ELSE reqs[o]]
           IN IF same
              THEN /\ SetEngine(IF meta.mime = mime THEN e1 ELSE SaveMetadata(e2))
                   /\ reqs' = Put(marked, s, [ctx EXCEPT !.result = "unchanged"])
                   /\ last' = [op |-> "save", name |-> f, result |-> "unchanged"]
                   /\ UNCHANGED history
              ELSE /\ SetEngine([e1 EXCEPT !.nextKey = nextKey + 1])
                   /\ reqs' = Put(marked, s,
                                  [ctx EXCEPT !.key = nextKey + 1,
                                              !.version = meta.headVersion + 1,
                                              !.pc = "deflate"])
                   /\ last' = [op |-> "save", name |-> f, result |-> "deflate"]
                   /\ UNCHANGED history

\* lines 154-168: encrypt, transaction A, up to the await of tx.done
SaveTransactionA ==
    \E s \in DOMAIN reqs :
        /\ reqs[s].pc = "deflate"
        /\ LET r == reqs[s]
               e1 == [Eng EXCEPT
                        !.metadata[r.name] =
                            UpdatedRecord(metadata[r.name], r.mime, r.version,
                                          r.bytes, r.key),
                        !.filesStore = Put(filesStore, r.key, Encrypt(Deflate(r.bytes)))]
           IN /\ SetEngine(SaveMetadata(e1))
              /\ reqs' = [reqs EXCEPT ![s].pc = "txDone"]
              /\ last' = [op |-> "save", name |-> r.name, result |-> "txDone"]
              /\ UNCHANGED history

\* lines 170-196 and part_001 lines 120-122: push, prune, hash, sign, serialize
SaveAppendVersion ==
    \E s \in DOMAIN reqs :
        /\ reqs[s].pc = "txDone"
        /\ LET r == reqs[s]
               chainId == metadata[r.name].chainId
               gc == GetChain(Eng, chainId)
               entry == VersionEntry(r.version, r.bytes, r.key)
               chain == ChainWithVersion(gc.chain, entry, r.limit)
               shared == CacheHas(gc.cache, chainId)
           IN /\ SetEngine(MutateCached([Eng EXCEPT !.cache = gc.cache], chainId, chain))
              /\ reqs' = [reqs EXCEPT ![s].pc = "chainDeflate",
                                      ![s].snapshot = chain,
                                      ![s].obj = chain,
                                      ![s].shared = shared,
                                      ![s].toDelete =
                                          DroppedKeys(Append(gc.chain.versions, entry),
                                                      r.limit)]
              /\ last' = [op |-> "save", name |-> r.name, result |-> "chainDeflate"]
              /\ UNCHANGED history

\* part_001 lines 125-140 and lines 198-211: write the chain, cache it, clean up, reply
SaveFinish ==
    \E s \in DOMAIN reqs :
        /\ reqs[s].pc = "chainDeflate"
        /\ LET r == reqs[s]
               chainId == metadata[r.name].chainId
               obj == IF r.shared THEN CacheGet(cache, chainId) ELSE r.obj
               detached(o) == /\ o # s
                              /\ reqs[o].pc = "chainDeflate"
                              /\ reqs[o].shared
                              /\ reqs[o].name = r.name
                              /\ ~r.shared
           IN /\ SetEngine([Eng EXCEPT
                    !.chainsStore = Put(chainsStore, chainId, StoredChain(r.snapshot)),
                    !.cache = CacheSet(CacheEvict(cache), chainId, obj),
                    !.filesStore = DelAll(filesStore, r.toDelete)])
              /\ reqs' = [o \in DOMAIN reqs |->
                            IF o = s THEN [r EXCEPT !.pc = "done", !.shared = FALSE,
                                                    !.obj = EmptyChain]
                            ELSE IF detached(o)
                            THEN [reqs[o] EXCEPT !.shared = FALSE,
                                                 !.obj = CacheGet(cache, chainId)]
                            ELSE reqs[o]]
              /\ last' = [op |-> "save", name |-> r.name, result |-> "ok"]
              /\ UNCHANGED history

\* the host receives the reply (WorkerManager.handleMessage)
ReplyReceived ==
    \E s \in DOMAIN reqs :
        /\ reqs[s].pc = "done"
        /\ reqs' = Del(reqs, s)
        /\ last' = [op |-> "reply", name |-> reqs[s].name, result |-> reqs[s].result]
        /\ UNCHANGED <<auth, metadata, cache, filesStore, metaStore, chainsStore,
                       nextKey, nextChain, faultsLeft, tampersLeft, history, maxCache,
                       appVars>>

InitOverlap ==
    Construct /\ DefaultCache /\ faultsLeft = 0 /\ tampersLeft = 0 /\ history = NoHistory

NextOverlap ==
    \/ DoInit
    \/ SaveStart
    \/ SaveTransactionA
    \/ SaveAppendVersion
    \/ SaveFinish
    \/ ReplyReceived

SpecOverlap == InitOverlap /\ [][NextOverlap]_vars

(***************************************************************************)
(* A pruning run: successive saves of pairwise different contents to one   *)
(* fresh file, all with the same version limit, the engine possibly        *)
(* re-initialised in between (which empties the chain cache).              *)
(***************************************************************************)
MaxSaves == 4
MaxLimit == 3

RECURSIVE Repeated(_)
Repeated(n) == IF n = 0 THEN "" ELSE "v" \o Repeated(n - 1)
PruneContents == {Repeated(k) : k \in 1..MaxSaves}
PruneLimits == (1..MaxLimit) \cup {DEFAULT_VERSION_LIMIT}

PruneSave ==
    \E bytes \in PruneContents, mime \in Mimes :
        /\ auth
        /\ reqs = Empty
        /\ Len(history.saved) < MaxSaves
        /\ \A i \in 1..Len(history.saved) : history.saved[i] # bytes
        /\ LET out == Save(Eng, history.name, bytes, mime, history.limit, "none")
           IN /\ SetEngine(out.eng)
              /\ history' = [history EXCEPT !.saved = Append(@, bytes)]
              /\ last' = [op |-> "save", name |-> history.name,
                          result |-> Outcome(out.res)]
              /\ UNCHANGED reqs

InitPrune ==
    /\ Construct
    /\ DefaultCache
    /\ faultsLeft = 0
    /\ tampersLeft = 0
    /\ history \in {[name |-> f, limit |-> L, saved |-> <<>>] :
                      f \in Names, L \in PruneLimits}

NextPrune ==
    \/ DoInit
    \/ PruneSave

SpecPrune == InitPrune /\ [][NextPrune]_vars

(***************************************************************************)
(* Several files: saves to either name, deletes and renames, with store    *)
(* failures.  Every new record gets a chain id of its own                  *)
(* (crypto.randomUUID, line 123).                                          *)
(***************************************************************************)
MaxFileKeys == 3
MaxFileChains == 3
FileNames == Names \cup {"c"}

FilesSave ==
    \E f \in FileNames, bytes \in Contents, mime \in {"text/markdown"},
       limit \in {1, DEFAULT_VERSION_LIMIT}, fault \in SaveFaults :
        /\ reqs = Empty
        /\ nextKey < MaxFileKeys
        /\ Has(metadata, f) \/ nextChain < MaxFileChains
        /\ Handled(Save(Eng, f, bytes, mime, limit, fault),
                   [NoRequest EXCEPT !.op = "save", !.name = f, !.bytes = bytes,
                                     !.mime = mime, !.limit = limit], fault)

FilesDelete ==
    \E f \in FileNames, fault \in WriteFaults :
        /\ reqs = Empty
        /\ Handled(Delete(Eng, f, fault),
                   [NoRequest EXCEPT !.op = "delete", !.name = f], fault)

FilesRename ==
    \E old \in FileNames, new \in FileNames \cup {""}, fault \in MetaFaults :
        /\ reqs = Empty
        /\ Handled(Rename(Eng, old, new, fault),
                   [NoRequest EXCEPT !.op = "rename", !.name = old, !.newName = new],
                   fault)

NextFiles ==
    \/ DoInit
    \/ FilesSave
    \/ FilesDelete
    \/ FilesRename

SpecFiles == Init /\ [][NextFiles]_vars

(***************************************************************************)
(* VaultManager.performFullIntegrityCheck and cleanupOrphans (useFile.js), *)
(* run on the engine's database and index.                                 *)
(***************************************************************************)
\* chain?.versions on the record read from 'chains': what saveChain stores is
\* the encrypted record (iv, data, sig), which has no versions property
HasVersions(stored) == "versions" \in DOMAIN stored

\* lines 483-499: the blob of a version is there, decrypts, and its hash is
\* the entry's and verifies against the entry's signature
VersionValid(e, version) ==
    /\ version.key # NoKey
    /\ BlobUsable(e, version.key)
    /\ Hash(BlobContent(e, version.key)) = version.hash
    /\ Verify(version.hash, version.sig)

\* lines 493-499: the blob is there and the version is pushed on issues
VersionIssue(e, version) ==
    /\ version.key # NoKey
    /\ Has(e.filesStore, version.key)
    /\ ~VersionValid(e, version)

\* lines 470-512, one file: is it removed, the keys it adds to referenced,
\* the versions it adds to issues
CheckFile(e, filename) ==
    LET meta == e.metadata[filename]
        kept == [remove |-> FALSE, referenced |-> {}, issues |-> {}]
    IN IF meta.chainId = UnknownChainId THEN kept
       ELSE IF ~Has(e.chainsStore, meta.chainId) THEN [kept EXCEPT !.remove = TRUE]
       ELSE IF ~HasVersions(e.chainsStore[meta.chainId])
       THEN [kept EXCEPT !.remove = TRUE]
       ELSE LET versions == e.chainsStore[meta.chainId].versions
                valid == {i \in 1..Len(versions) : VersionValid(e, versions[i])}
                failing == {i \in 1..Len(versions) : VersionIssue(e, versions[i])}
            IN [remove |-> valid = {},
                referenced |-> {versions[i].key : i \in valid},
                issues |-> {<<filename, versions[i].version>> : i \in failing}]

\* cleanupOrphans(db, referenced): the files store afterwards; a failure of
\* the key scan or of the transaction is swallowed and nothing is deleted
CleanupOrphans(e, referenced, fault) ==
    IF fault = "cleanup" THEN e.filesStore
    ELSE DelAll(e.filesStore, DOMAIN e.filesStore \ referenced)

CheckFaults == {"none", "cleanup"}

\* performFullIntegrityCheck(db, metadata, encKey, keys): [eng, res]
PerformFullIntegrityCheck(e, fault) ==
    LET toRemove == {f \in DOMAIN e.metadata : CheckFile(e, f).remove}
        referenced == UNION {CheckFile(e, f).referenced : f \in DOMAIN e.metadata}
        issues == UNION {CheckFile(e, f).issues : f \in DOMAIN e.metadata}
        files == CleanupOrphans(e, referenced, fault)
    IN [eng |-> [e EXCEPT !.metadata = [f \in DOMAIN e.metadata \ toRemove |->
                                           e.metadata[f]],
                          !.filesStore = files],
        res |-> [issues |-> issues, filesRemoved |-> toRemove,
                 orphansRemoved |-> Cardinality(DOMAIN files) - Cardinality(referenced)]]

IntegrityCheck ==
    \E fault \in CheckFaults :
        /\ auth
        /\ reqs = Empty
        /\ fault = "none" \/ faultsLeft > 0
        /\ LET out == PerformFullIntegrityCheck(Eng, fault)
           IN /\ metadata' = out.eng.metadata
              /\ filesStore' = out.eng.filesStore
              /\ faultsLeft' = IF fault = "none" THEN faultsLeft ELSE faultsLeft - 1
              /\ last' = [op |-> "integrity-check", name |-> "",
                          result |-> IF fault = "cleanup" THEN "cleanup"
                                     ELSE IF out.res.filesRemoved # {} THEN "removed"
                                     ELSE "ok"]
              /\ UNCHANGED <<auth, cache, metaStore, chainsStore, nextKey, nextChain,
                             tampersLeft, reqs, history, maxCache, appVars>>

\* The engine with blobs lost or changed from outside, store failures, and
\* the integrity check.
InitCheck ==
    Construct /\ DefaultCache /\ faultsLeft = MaxFaults /\ tampersLeft = MaxTamper /\ history = NoHistory

NextCheck ==
    \/ DoInit
    \/ DoSave
    \/ LoseBlob
    \/ AlterBlob
    \/ IntegrityCheck

SpecCheck == InitCheck /\ [][NextCheck]_vars

(***************************************************************************)
(* The metadata index lost or changed from outside the engine, for         *)
(* loadMetadata's fallbacks.                                               *)
(***************************************************************************)
LoseIndex ==
    /\ Has(metaStore, "index")
    /\ Tampered("lose index")
    /\ metaStore' = Del(metaStore, "index")
    /\ UNCHANGED <<filesStore, chainsStore>>

AlterIndex ==
    /\ Has(metaStore, "index")
    /\ metaStore["index"].tagOk
    /\ Tampered("alter index")
    /\ metaStore' = [metaStore EXCEPT !["index"].tagOk = FALSE]
    /\ UNCHANGED <<filesStore, chainsStore>>

NextRebuild ==
    \/ DoInit
    \/ DoSave
    \/ DoLoad
    \/ LoseBlob
    \/ LoseIndex
    \/ AlterIndex

SpecRebuild == InitTamper /\ [][NextRebuild]_vars

(***************************************************************************)
(* The chain cache under pressure.  getChain and saveChain compare the     *)
(* cache size with maxCache and never use its value otherwise, so a chain  *)
(* manager created with a small maxCache shows the evictions that the      *)
(* default needs twenty-one files for.                                     *)
(***************************************************************************)
SmallCache == 2

InitCache ==
    /\ Construct
    /\ maxCache = SmallCache
    /\ faultsLeft = 0 /\ tampersLeft = 0 /\ history = NoHistory

NextCache ==
    \/ DoInit
    \/ FilesSave
    \/ DoLoad

SpecCache == InitCache /\ [][NextCache]_vars

(***************************************************************************)
(* Export and import of the vault as a ZIP archive.  An archive is the     *)
(* object zipSync packs: entry names to contents.  The host imports an     *)
(* archive by asking the worker for its items and saving each of them.     *)
(***************************************************************************)
MaxZipKeys == 3
SidecarName == ".hashfs_meta.json"
OctetStream == "application/octet-stream"
ZipNames == {"a", SidecarName}
ZipMimes == {"text/markdown", ""}

\* compress.zip / compress.unzip (fflate zipSync, unzipSync)
Zip(entries) == [zip |-> entries]
Unzip(archive) == archive.zip

\* lines 273-284: the files whose active blob is read, decrypted and inflated;
\* a failure is caught and the file left out
Exported(e) ==
    {n \in DOMAIN e.metadata :
        /\ e.metadata[n].activeKey # NoKey
        /\ Has(e.filesStore, e.metadata[n].activeKey)
        /\ CanDecrypt(e.filesStore[e.metadata[n].activeKey])}

\* metaMap[name] = meta.mime || 'application/octet-stream'
ExportedMimes(e) ==
    [n \in Exported(e) |->
        IF e.metadata[n].mime = "" THEN OctetStream ELSE e.metadata[n].mime]

\* handlers.exportZip(): the archive.  The sidecar entry is assigned last.
ExportZip(e) ==
    Zip([n \in Exported(e) \cup {SidecarName} |->
            IF n = SidecarName
            THEN ToJSON([mimes |-> ExportedMimes(e)])
            ELSE Inflate(Decrypt(e.filesStore[e.metadata[n].activeKey]))])

\* handlers.importZip(arrayBuffer): the items, one per entry but the sidecar
ImportZip(archive) ==
    LET decompressed == Unzip(archive)
        metaMap == IF Has(decompressed, SidecarName)
                   THEN ParseJSON(decompressed[SidecarName]).mimes
                   ELSE Empty
    IN {[filename |-> n,
         mime |-> IF Has(metaMap, n) /\ metaMap[n] # "" THEN metaMap[n]
                  ELSE OctetStream,
         bytes |-> decompressed[n]] : n \in DOMAIN decompressed \ {SidecarName}}

\* useHashFS.importZip: 'save' is sent for every item, without options
RECURSIVE SaveItems(_, _)
SaveItems(e, items) ==
    IF items = {} THEN e
    ELSE LET item == CHOOSE i \in items : TRUE
         IN SaveItems(Save(e, item.filename, item.bytes, item.mime,
                           DEFAULT_VERSION_LIMIT, "none").eng,
                      items \ {item})

HostImportZip(e, archive) == SaveItems(e, ImportZip(archive))

\* a vault nothing was saved to, unlocked
EmptyVault ==
    InitHandler([auth |-> FALSE, metadata |-> Empty, cache |-> <<>>,
                 filesStore |-> Empty, metaStore |-> Empty, chainsStore |-> Empty,
                 nextKey |-> 0, nextChain |-> 0]).eng

ZipSave ==
    \E f \in ZipNames, bytes \in Contents, mime \in ZipMimes :
        /\ reqs = Empty
        /\ nextKey < MaxZipKeys
        /\ Handled(Save(Eng, f, bytes, mime, DEFAULT_VERSION_LIMIT, "none"),
                   [NoRequest EXCEPT !.op = "save", !.name = f, !.bytes = bytes,
                                     !.mime = mime], "none")

\* 'export-zip': the engine is only read
DoExportZip ==
    /\ reqs = Empty
    /\ Handled([eng |-> Eng, res |-> Success],
               [NoRequest EXCEPT !.op = "export-zip"], "none")

\* the archive of this vault imported into an empty one
ZipRoundTrip ==
    /\ reqs = Empty
    /\ auth
    /\ Handled([eng |-> HostImportZip(EmptyVault, ExportZip(Eng)), res |-> Success],
               [NoRequest EXCEPT !.op = "import-zip"], "none")

InitZip ==
    /\ Construct /\ DefaultCache
    /\ faultsLeft = 0 /\ tampersLeft = 0 /\ history = NoHistory

NextZip ==
    \/ DoInit
    \/ ZipSave
    \/ DoExportZip
    \/ ZipRoundTrip

SpecZip == InitZip /\ [][NextZip]_vars

(***************************************************************************)
(* Key derivation and vault namespaces.  A passphrase is a sequence of     *)
(* code points; scrypt, HKDF, the Ed25519 public key and BLAKE3 are        *)
(* injective taggings of their inputs.  AES-GCM under a key: the payload   *)
(* decrypts under that key only.  Each database holds the blobs put into   *)
(* its 'files' store, each with the passphrase of the session that wrote   *)
(* it.                                                                     *)
(***************************************************************************)
MaxBlobs == 2
MinPasswordBytes == 8

Utf8Length(ch) == IF ch \in {"e-acute", "combining-acute"} THEN 2 ELSE 1

RECURSIVE ByteCount(_)
\* encoder.encode(s).length
ByteCount(s) == IF s = <<>> THEN 0 ELSE Utf8Length(Head(s)) + ByteCount(Tail(s))

RECURSIVE NormalizeNFC(_)
\* String.prototype.normalize('NFC'): a base letter and its combining mark compose
NormalizeNFC(s) ==
    IF Len(s) < 2 THEN s
    ELSE IF s[1] = "e" /\ s[2] = "combining-acute"
    THEN <<"e-acute">> \o NormalizeNFC(SubSeq(s, 3, Len(s)))
    ELSE <<s[1]>> \o NormalizeNFC(Tail(s))

RECURSIVE TrimStart(_)
TrimStart(s) == IF s # <<>> /\ Head(s) = " " THEN TrimStart(Tail(s)) ELSE s
RECURSIVE TrimEnd(_)
TrimEnd(s) ==
    IF s # <<>> /\ s[Len(s)] = " " THEN TrimEnd(SubSeq(s, 1, Len(s) - 1)) ELSE s
\* String.prototype.trim
Trim(s) == TrimEnd(TrimStart(s))

Salt == "hashfs-v6-2025"

\* deriveKeys with the encryption key expanded from the salt alone
DeriveKeysSharedEncKey(pwd) ==
    LET pwdBytes == Trim(NormalizeNFC(pwd))
        masterKey == <<"scrypt", pwdBytes, Salt>>
        sigKey == <<"hkdf", masterKey, Salt, "signing">>
        encKey == <<"hkdf", Salt, "encryption">>
        pubKey == <<"ed25519.getPublicKey", sigKey>>
    IN IF ByteCount(pwdBytes) < MinPasswordBytes
       THEN [ok |-> FALSE, error |-> "Password too short"]
       ELSE [ok |-> TRUE, sigKey |-> sigKey, pubKey |-> pubKey, encKey |-> encKey,
             dbName |-> <<Hash(pubKey), "-hashfs-v6">>]

\* cryptoUtils.deriveKeys(pwd)
DeriveKeys(pwd) ==
    LET pwdBytes == Trim(NormalizeNFC(pwd))
        masterKey == <<"scrypt", pwdBytes, Salt>>
        sigKey == <<"hkdf", masterKey, Salt, "signing">>
        encKey == <<"hkdf", masterKey, Salt, "encryption">>
        pubKey == <<"ed25519.getPublicKey", sigKey>>
    IN IF ByteCount(pwdBytes) < MinPasswordBytes
       THEN [ok |-> FALSE, error |-> "Password too short"]
       ELSE [ok |-> TRUE, sigKey |-> sigKey, pubKey |-> pubKey, encKey |-> encKey,
             dbName |-> <<Hash(pubKey), "-hashfs-v6">>]

\* cryptoUtils.encrypt / decrypt with the key in view
EncryptWith(bytes, key) == [data |-> bytes, key |-> key]
CanDecryptWith(payload, key) == payload.key = key

Cores ==
    {<<"h", "u", "n", "t", "e", "r", "2", "2">>,
     <<"h", "u", "n", "t", "e-acute", "r", "2">>,
     <<"h", "u", "n", "t", "e", "combining-acute", "r", "2">>,
     <<"h", "u", "n", "t", "e", "r", "2">>}
Passphrases == Cores \cup {<<" ">> \o core \o <<" ">> : core \in Cores}

BlobCount == Cardinality(UNION {{<<n, b>> : b \in databases[n]} : n \in DOMAIN databases})

\* handlers.init(passphrase), lines 19-20: the keys, and the database of that
\* name, created when it does not exist; a rejected passphrase throws first
Unlock ==
    \E p \in Passphrases :
        LET k == DeriveKeys(p)
        IN /\ IF k.ok
              THEN /\ session' = [keys |-> k, passphrase |-> p]
                   /\ databases' = IF Has(databases, k.dbName) THEN databases
                                   ELSE Put(databases, k.dbName, {})
              ELSE UNCHANGED <<session, databases>>
           /\ UNCHANGED <<engineVars, host, file, chat, restVars>>

\* handlers.save, lines 155-166: the blob encrypted with keys.encKey goes into
\* the 'files' store of the open database
StoreBlob(d, s, filename, bytes) ==
    [d EXCEPT ![s.keys.dbName] =
        @ \cup {[name |-> filename,
                 payload |-> EncryptWith(Deflate(bytes), s.keys.encKey),
                 writer |-> s.passphrase]}]

PutBlob ==
    \E f \in Names, bytes \in Contents :
        /\ session # NoSession
        /\ BlobCount < MaxBlobs
        /\ databases' = StoreBlob(databases, session, f, bytes)
        /\ UNCHANGED <<engineVars, session, host, file, chat, restVars>>

InitVaults ==
    /\ Construct /\ DefaultCache
    /\ faultsLeft = 0 /\ tampersLeft = 0 /\ history = NoHistory

NextVaults ==
    \/ Unlock
    \/ PutBlob

SpecVaults == InitVaults /\ [][NextVaults]_vars

(***************************************************************************)
(* init on a database that cannot be opened or fails the health probe, and *)
(* the object init returns                                                 *)
(***************************************************************************)
\* recoverDatabase(dbName): the database is deleted and created empty
RecoverDatabase(e) ==
    [e EXCEPT !.filesStore = Empty, !.metaStore = Empty, !.chainsStore = Empty]

\* handlers.init when initDatabase falls back to recoverDatabase
InitRecovering(e) == InitHandler(RecoverDatabase(e))

\* getFileList(): one summary per record (sizes and times left out)
GetFileList(e) ==
    {[name |-> n,
      mime |-> IF e.metadata[n].mime = "" THEN "text/markdown" ELSE e.metadata[n].mime,
      versions |-> e.metadata[n].headVersion] : n \in DOMAIN e.metadata}

\* the vault fingerprint of init: the hash over database name and encryption key
BaseHash(k) == Hash(<<k.dbName, k.encKey>>)

\* what handlers.init returns; entropy is what went into the session hash
InitResult(e, k, entropy) ==
    [success |-> TRUE, files |-> GetFileList(e),
     messageHash |-> [base |-> BaseHash(k), session |-> Hash(<<BaseHash(k), entropy>>)]]

DoInitRecovering ==
    /\ reqs = Empty
    /\ faultsLeft > 0
    /\ Handled(InitRecovering(Eng), [NoRequest EXCEPT !.op = "init"], "none")

InitRecover ==
    /\ Construct /\ DefaultCache
    /\ faultsLeft = MaxFaults /\ tampersLeft = MaxTamper /\ history = NoHistory

NextRecover ==
    \/ DoInit
    \/ DoInitRecovering
    \/ DoSave
    \/ AlterIndex

SpecRecover == InitRecover /\ [][NextRecover]_vars

(***************************************************************************)
(* The host: useHashFS (src/unnamed/part_000) with its WorkerManager, over *)
(* the vaults of the key-derivation model.  A request to the worker is     *)
(* sent, handled and answered within the step that sends it.               *)
(***************************************************************************)
MaxInits == 3
MaxCloses == 1

\* state.auth.value
HostAuth(h) == h.refs[h.authRef]

\* getFileList() of the open database, as the set of file names
VaultFiles(d, n) == {b.name : b \in d[n]}

\* handlers.init(passphrase) in the worker, deriveKeys throwing for a short
\* passphrase: [ok, session, databases, result]
WorkerInit(s, d, p, entropy) ==
    LET k == DeriveKeys(p)
        opened == IF Has(d, k.dbName) THEN d ELSE Put(d, k.dbName, {})
    IN IF ~k.ok
       THEN [ok |-> FALSE, session |-> s, databases |-> d, result |-> Undefined]
       ELSE [ok |-> TRUE, session |-> [keys |-> k, passphrase |-> p],
             databases |-> opened,
             result |-> [success |-> TRUE, files |-> VaultFiles(opened, k.dbName),
                         messageHash |-> [base |-> BaseHash(k),
                                          session |-> Hash(<<BaseHash(k), entropy>>)]]]

\* WorkerManager.handleMessage, lines 79-83: the hashes of a successful init
\* are stored before the request is resolved
HandleMessage(h, reply) ==
    IF reply.ok
    THEN [h EXCEPT !.vaultHash = reply.result.messageHash.base,
                   !.sessionHash = reply.result.messageHash.session]
    ELSE h

\* WorkerManager.terminate
Terminate(h) ==
    [h EXCEPT !.worker = 0, !.vaultHash = Undefined, !.sessionHash = Undefined]

\* WM().sendToWorker('init', {passphrase}): initWorker creates the worker when
\* there is none; the reply passes through handleMessage
SendInit(h, s, d, p) ==
    LET h0 == IF h.worker = 0
              THEN [h EXCEPT !.worker = h.spawned + 1, !.spawned = h.spawned + 1]
              ELSE h
        reply == WorkerInit(IF h.worker = 0 THEN NoSession ELSE s, d, p, h.clock)
    IN [host |-> HandleMessage([h0 EXCEPT !.clock = h.clock + 1], reply),
        reply |-> reply]

\* useHashFS.init, lines 80-95: the init of a locked host, from its reply on
FinishInit(a) ==
    [host |-> IF a.reply.ok
              THEN [a.host EXCEPT !.refs[a.host.authRef] = TRUE,
                                  !.files = a.reply.result.files]
              ELSE a.host,
     session |-> a.reply.session, databases |-> a.reply.databases]

\* useHashFS.init(): [host, session, databases]
UseHashFSInit(h, s, d, p) ==
    IF ~HostAuth(h) THEN FinishInit(SendInit(h, s, d, p))
    ELSE
    LET a == SendInit(h, s, d, p)
        cleared == [Terminate(a.host) EXCEPT !.refs[h.authRef] = FALSE, !.files = {}]
    IN IF ~a.reply.ok
       THEN [host |-> a.host, session |-> a.reply.session,
             databases |-> a.reply.databases]
       ELSE IF a.reply.result.messageHash.base = a.host.vaultHash
       THEN [host |-> [a.host EXCEPT
                          !.sessionHash = a.reply.result.messageHash.session],
             session |-> a.reply.session, databases |-> a.reply.databases]
       ELSE FinishInit(SendInit(cleared, NoSession, a.reply.databases, p))

\* useHashFS.close()
Close(h) ==
    [Terminate(h) EXCEPT !.authRef = Len(h.refs) + 1, !.refs = Append(h.refs, FALSE),
                         !.files = {}]

HostInit ==
    \E p \in Passphrases :
        LET out == UseHashFSInit(host, session, databases, p)
        IN /\ host.clock < MaxInits
           /\ host' = out.host
           /\ session' = out.session
           /\ databases' = out.databases
           /\ UNCHANGED <<engineVars, file, chat, restVars>>

\* file.save() of some file instance (useFile.js:117-127): the worker stores
\* the version and the host takes the file list of the reply
HostSave ==
    \E f \in Names, bytes \in {"x"} :
        /\ HostAuth(host)
        /\ host.worker # 0 /\ session # NoSession
        /\ BlobCount < MaxBlobs
        /\ databases' = StoreBlob(databases, session, f, bytes)
        /\ host' = [host EXCEPT !.files = VaultFiles(databases', session.keys.dbName)]
        /\ UNCHANGED <<engineVars, session, file, chat, restVars>>

HostClose ==
    /\ Len(host.refs) <= MaxCloses
    /\ host' = Close(host)
    /\ session' = NoSession
    /\ UNCHANGED <<engineVars, databases, file, chat, restVars>>

InitHost ==
    /\ Construct /\ DefaultCache
    /\ faultsLeft = 0 /\ tampersLeft = 0 /\ history = NoHistory

NextHost ==
    \/ HostInit
    \/ HostSave
    \/ HostClose

SpecHost == InitHost /\ [][NextHost]_vars

(***************************************************************************)
(* A file instance (src/src/useFile.js, createFileInstance) over the       *)
(* engine.  The worker handles a request when it is sent; its reply waits  *)
(* in file.pending and is delivered later, in the order of the requests.   *)
(* The loading ref is left out.                                            *)
(***************************************************************************)
MaxInstKeys == 3
MaxUndoKeys == 17
MaxPending == 2
InitialContents == {"", "yy"}

\* availableVersions of a reply that has none
UndefinedRange == [undefined |-> TRUE]
RangeKnown(r) == "min" \in DOMAIN r

\* canUndo / canRedo (lines 22-23); reading .min of undefined throws
CanUndo(i) ==
    /\ RangeKnown(i.availableVersions)
    /\ i.currentVersion # Null
    /\ i.currentVersion > i.availableVersions.min
CanRedo(i) ==
    /\ RangeKnown(i.availableVersions)
    /\ i.currentVersion # Null
    /\ i.currentVersion < i.availableVersions.max

\* availableVersions in the result of handlers.load (hashfs-worker.js:104-107)
AvailableVersions(e, filename) ==
    LET versions == GetChain(e, e.metadata[filename].chainId).chain.versions
    IN IF versions = <<>> THEN [min |-> 0, max |-> 0]
       ELSE [min |-> versions[1].version, max |-> versions[Len(versions)].version]

\* the reply to 'load': the result of handlers.load, or the error
LoadReply(e, out) ==
    [kind |-> "load", ok |-> out.res.ok, bytes |-> out.res.bytes,
     mime |-> out.res.mime, version |-> out.res.version,
     availableVersions |->
        IF out.res.ok /\ out.res.version # Null /\ ~out.res.recovered
        THEN AvailableVersions(out.eng, InstName) ELSE UndefinedRange,
     sent |-> "", files |-> {}]

\* the reply to 'save': {success, files, version}, {success, unchanged}, or the error
SaveReply(bytes, out) ==
    [kind |-> "save", ok |-> out.res.ok, bytes |-> "", mime |-> "",
     version |-> IF out.res.ok /\ ~out.res.unchanged THEN out.res.version ELSE Null,
     availableVersions |-> UndefinedRange, sent |-> bytes,
     files |-> IF out.res.ok /\ ~out.res.unchanged THEN DOMAIN out.eng.metadata ELSE {}]

\* load(version), lines 69-89, up to the request: [file, eng]
FileLoad(i, h, e, version) ==
    IF ~HostAuth(h)
    THEN [file |-> IF i.initial # "" THEN [i EXCEPT !.bytes = i.initial,
                                                    !.mime = "text/plain"]
                   ELSE i,
          eng |-> e]
    ELSE LET out == Load(e, InstName, version, FALSE, "none")
         IN [file |-> [i EXCEPT !.pending = Append(@, LoadReply(e, out))],
             eng |-> out.eng]

\* save(), lines 117-123, up to the request: [file, eng]
FileSave(i, h, e) ==
    IF ~i.dirty \/ ~HostAuth(h) THEN [file |-> i, eng |-> e]
    ELSE LET out == Save(e, InstName, i.bytes, i.mime, DEFAULT_VERSION_LIMIT, "none")
         IN [file |-> [i EXCEPT !.pending = Append(@, SaveReply(i.bytes, out))],
             eng |-> out.eng]

\* load(), lines 91-97, from the result on
LoadReplied(i, reply) ==
    [i EXCEPT !.bytes = reply.bytes,
              !.mime = IF reply.mime = "" THEN OctetStream ELSE reply.mime,
              !.currentVersion = reply.version,
              !.availableVersions = reply.availableVersions,
              !.dirty = FALSE,
              !.synced = reply.bytes]

\* save(), lines 125-135, from the result on
SaveReplied(i, reply) ==
    LET v == reply.version
        prev == IF RangeKnown(i.availableVersions) THEN i.availableVersions
                ELSE [min |-> v, max |-> v]
    IN IF v = Null THEN [i EXCEPT !.dirty = FALSE, !.synced = reply.sent]
       ELSE [i EXCEPT !.dirty = FALSE, !.synced = reply.sent,
                      !.currentVersion = v,
                      !.availableVersions =
                          [min |-> IF prev.min = 0 THEN v ELSE prev.min,
                           max |-> IF prev.max > v THEN prev.max ELSE v]]

\* the delivery of a reply; a rejected request throws and changes nothing
Replied(i, reply) ==
    IF ~reply.ok THEN i
    ELSE IF reply.kind = "load" THEN LoadReplied(i, reply)
    ELSE SaveReplied(i, reply)

\* the text setter, lines 34-40
Edited(i, value) ==
    [i EXCEPT !.bytes = value, !.dirty = TRUE,
              !.timer = IF i.autoSave THEN TRUE ELSE i.timer]

\* the watcher's branch for a false value, lines 52-59
Cleared(i) ==
    [i EXCEPT !.bytes = i.initial, !.mime = "text/plain", !.dirty = FALSE,
              !.currentVersion = 0, !.availableVersions = [min |-> 0, max |-> 0],
              !.synced = NotSynced]

\* watch(state.auth, ...), lines 48-61: the callback runs when the value of
\* the watched ref has changed from h to h2: [file, eng]
Watched(i, h, h2, e) ==
    IF ~i.created \/ h.refs[i.watched] = h2.refs[i.watched]
    THEN [file |-> i, eng |-> e]
    ELSE IF h2.refs[i.watched] THEN FileLoad(i, h2, e, Null)
    ELSE [file |-> Cleared(i), eng |-> e]

\* a step of host and file instance on the engine
InstanceStep(op, h, out) ==
    /\ host' = h
    /\ file' = out.file
    /\ auth' = out.eng.auth
    /\ metadata' = out.eng.metadata
    /\ cache' = out.eng.cache
    /\ filesStore' = out.eng.filesStore
    /\ metaStore' = out.eng.metaStore
    /\ chainsStore' = out.eng.chainsStore
    /\ nextKey' = out.eng.nextKey
    /\ nextChain' = out.eng.nextChain
    /\ last' = [op |-> op, name |-> InstName, result |-> "ok"]
    /\ UNCHANGED <<faultsLeft, tampersLeft, reqs, history, maxCache, session, databases,
                   chat, restVars>>

\* useHashFS.init of a locked host (part_000:80-84) with the engine as its worker
Login ==
    /\ ~HostAuth(host)
    /\ LET e == InitHandler(Eng).eng
           h == [host EXCEPT !.refs[host.authRef] = TRUE,
                             !.worker = IF host.worker = 0 THEN host.spawned + 1
                                        ELSE host.worker,
                             !.spawned = IF host.worker = 0 THEN host.spawned + 1
                                         ELSE host.spawned,
                             !.files = DOMAIN e.metadata]
       IN InstanceStep("init", h, Watched(file, host, h, e))

\* useHashFS.close() (part_000:198-208): the worker is terminated, its pending
\* requests are rejected, what it held in memory is gone
Logout ==
    /\ Len(host.refs) <= MaxCloses
    /\ LET e == [Eng EXCEPT !.auth = FALSE, !.metadata = Empty, !.cache = <<>>]
           h == Close(host)
       IN InstanceStep("close", h,
                       Watched([file EXCEPT !.pending = <<>>], host, h, e))

\* useFile(filename, initialContent, {autoSave}): the instance is created and
\* load() is called (line 46)
CreateFile(autoSaves, initials) ==
    \E autoSave \in autoSaves, initial \in initials :
        /\ ~file.created
        /\ InstanceStep("useFile", host,
              FileLoad([NoFile EXCEPT !.created = TRUE, !.initial = initial,
                                      !.autoSave = autoSave,
                                      !.watched = host.authRef],
                       host, Eng, Null))

UseFile == CreateFile({TRUE}, InitialContents)
UseFileManual == CreateFile({FALSE}, {""})

\* file.text = value
Edit ==
    \E value \in Contents :
        /\ file.created
        /\ InstanceStep("edit", host, [file |-> Edited(file, value), eng |-> Eng])

CanSend(maxKeys) == Len(file.pending) < MaxPending /\ nextKey < maxKeys

\* the auto-save timer fires (line 66)
TimerFires ==
    /\ file.created /\ file.timer
    /\ CanSend(MaxInstKeys)
    /\ InstanceStep("timer", host, FileSave([file EXCEPT !.timer = FALSE], host, Eng))

\* file.save()
CallSave(maxKeys) ==
    /\ file.created
    /\ CanSend(maxKeys)
    /\ InstanceStep("save", host, FileSave(file, host, Eng))

\* file.load()
CallLoad(maxKeys) ==
    /\ file.created
    /\ CanSend(maxKeys)
    /\ InstanceStep("load", host, FileLoad(file, host, Eng, Null))

\* file.undo(), lines 107-110
Undo ==
    /\ file.created
    /\ CanSend(MaxUndoKeys)
    /\ CanUndo(file)
    /\ InstanceStep("undo", host, FileLoad(file, host, Eng, file.currentVersion - 1))

\* file.redo(), lines 112-115
Redo ==
    /\ file.created
    /\ CanSend(MaxUndoKeys)
    /\ CanRedo(file)
    /\ InstanceStep("redo", host, FileLoad(file, host, Eng, file.currentVersion + 1))

\* the oldest reply in flight is delivered
Reply ==
    /\ file.pending # <<>>
    /\ InstanceStep(Head(file.pending).kind \o " reply",
          IF Head(file.pending).files # {}
          THEN [host EXCEPT !.files = Head(file.pending).files] ELSE host,
          [file |-> Replied([file EXCEPT !.pending = Tail(@)], Head(file.pending)),
           eng |-> Eng])

InitInstance ==
    /\ Construct /\ DefaultCache
    /\ faultsLeft = 0 /\ tampersLeft = 0 /\ history = NoHistory

\* a file instance with auto-save, through logins and a close
NextInstance ==
    \/ Login
    \/ Logout
    \/ UseFile
    \/ Edit
    \/ TimerFires
    \/ CallSave(MaxInstKeys)
    \/ CallLoad(MaxInstKeys)
    \/ Reply

SpecInstance == InitInstance /\ [][NextInstance]_vars

\* a file instance with auto-save while the vault stays unlocked
NextAutoSave ==
    \/ Login
    \/ UseFile
    \/ Edit
    \/ TimerFires
    \/ CallSave(MaxInstKeys)
    \/ CallLoad(MaxInstKeys)
    \/ Reply

SpecAutoSave == InitInstance /\ [][NextAutoSave]_vars

\* a file instance through loads, saves, undos and redos, far enough for the
\* default version limit to prune
NextUndo ==
    \/ Login
    \/ UseFileManual
    \/ Edit
    \/ CallSave(MaxUndoKeys)
    \/ CallLoad(MaxUndoKeys)
    \/ Undo
    \/ Redo
    \/ Reply

SpecUndo == InitInstance /\ [][NextUndo]_vars

(***************************************************************************)
(* useChat (part_003): one conversation of one space                       *)
(***************************************************************************)
\* The files of the conversation are kept by path; a file holds what was
\* last saved under its path, and a path never saved reads as the empty text
\* (readTextFile, lines 53-57).  A chunk file is the sequence of its NDJSON
\* lines, a JSON file the object it encodes.  Timestamps, title and preview
\* are left out; the messages carry a role and a content, here the serial
\* number of the call, and no custom field.

\* convMetaPath, convChunkPath, seqMaxPath, bySeqPath (lines 38-52)
ConvMetaPath == <<"meta.json", 0>>
ConvChunkPath(chunkIdx) == <<"chunks", chunkIdx>>
SeqMaxPath == <<"_seq_max.txt", 0>>
BySeqPath(seq) == <<"by-seq", seq>>

\* readJSON(metaFile) || { convId, title: 'Chat', lastId: 0, ... } (line 219)
ReadMeta(files) ==
    IF Has(files, ConvMetaPath) THEN files[ConvMetaPath]
    ELSE [lastId |-> 0, lastChunkIndex |-> 0]

\* readTextFile(chunkFile) (line 234)
ReadChunk(files, chunkIdx) ==
    IF Has(files, ConvChunkPath(chunkIdx)) THEN files[ConvChunkPath(chunkIdx)]
    ELSE <<>>

\* getSeqMax (lines 71-75)
GetSeqMax(files) == IF Has(files, SeqMaxPath) THEN files[SeqMaxPath] ELSE 0

\* lines 221-222
NextId(meta) == meta.lastId + 1
ChunkIdx(nextId) == (nextId - 1) \div ChunkSize

\* lines 224-230
Msg(call) == [id |-> NextId(call.meta), content |-> call.content]

\* a step of call c: the call record and the files after it
ChatStep(c, call, files) ==
    /\ chat' = [chat EXCEPT !.calls[c] = call, !.files = files]
    /\ UNCHANGED <<engineVars, session, databases, host, file, restVars>>

\* addMessage is called (lines 215-219): ensureAuth, then the read of the
\* conversation's meta file is requested
AddMessage ==
    \E c \in Calls :
        /\ HostAuth(host)
        /\ chat.calls[c].pc = "idle"
        /\ chat.issued < MaxMessages
        /\ chat' = [chat EXCEPT !.calls[c] = [pc |-> "readMeta",
                                              content |-> chat.issued + 1],
                                !.issued = chat.issued + 1]
        /\ UNCHANGED <<engineVars, session, databases, host, file, restVars>>

\* line 219: the worker answers the read of meta.json
MetaRead ==
    \E c \in Calls :
        /\ chat.calls[c].pc = "readMeta"
        /\ ChatStep(c, [pc |-> "readChunk", content |-> chat.calls[c].content,
                        meta |-> ReadMeta(chat.files)], chat.files)

\* line 234: the worker answers the read of the chunk file
ChunkRead ==
    \E c \in Calls :
        LET call == chat.calls[c] IN
        /\ call.pc = "readChunk"
        /\ ChatStep(c, [pc |-> "writeChunk", content |-> call.content,
                        meta |-> call.meta,
                        oldText |-> ReadChunk(chat.files,
                                              ChunkIdx(NextId(call.meta)))],
                    chat.files)

\* lines 235-236: the chunk file is written with the message appended
ChunkWritten ==
    \E c \in Calls :
        LET call == chat.calls[c] IN
        /\ call.pc = "writeChunk"
        /\ ChatStep(c, [pc |-> "writeMeta", content |-> call.content,
                        meta |-> call.meta],
                    Put(chat.files, ConvChunkPath(ChunkIdx(NextId(call.meta))),
                        Append(call.oldText, Msg(call))))

\* lines 239-248: meta.json is written with lastId and lastChunkIndex
MetaWritten ==
    \E c \in Calls :
        LET call == chat.calls[c] IN
        /\ call.pc = "writeMeta"
        /\ ChatStep(c, [pc |-> "getSeqMax", content |-> call.content,
                        meta |-> call.meta],
                    Put(chat.files, ConvMetaPath,
                        [lastId |-> NextId(call.meta),
                         lastChunkIndex |-> ChunkIdx(NextId(call.meta))]))

\* line 251: the worker answers the read of _seq_max.txt
SeqMaxRead ==
    \E c \in Calls :
        LET call == chat.calls[c] IN
        /\ call.pc = "getSeqMax"
        /\ ChatStep(c, [pc |-> "setSeqMax", content |-> call.content,
                        meta |-> call.meta, prevSeq |-> GetSeqMax(chat.files)],
                    chat.files)

\* lines 252-253: _seq_max.txt is written
SeqMaxWritten ==
    \E c \in Calls :
        LET call == chat.calls[c] IN
        /\ call.pc = "setSeqMax"
        /\ ChatStep(c, [pc |-> "writeSummary", content |-> call.content,
                        meta |-> call.meta, prevSeq |-> call.prevSeq],
                    Put(chat.files, SeqMaxPath, call.prevSeq + 1))

\* lines 254-257: the by-seq snapshot is written and the message returned
SummaryWritten ==
    \E c \in Calls :
        LET call == chat.calls[c] IN
        /\ call.pc = "writeSummary"
        /\ chat' = [chat EXCEPT
                      !.calls[c] = IdleCall,
                      !.files = Put(chat.files, BySeqPath(call.prevSeq + 1),
                                    [seq |-> call.prevSeq + 1,
                                     lastId |-> NextId(call.meta)]),
                      !.returned = chat.returned \cup {Msg(call)}]
        /\ UNCHANGED <<engineVars, session, databases, host, file, restVars>>

NextChat ==
    \/ Login
    \/ AddMessage
    \/ MetaRead
    \/ ChunkRead
    \/ ChunkWritten
    \/ MetaWritten
    \/ SeqMaxRead
    \/ SeqMaxWritten
    \/ SummaryWritten

SpecChat == InitInstance /\ [][NextChat]_vars

(***************************************************************************)
(* A vault whose chains were written before chains carried chainHash and   *)
(* chainSig: validateChainIntegrity's legacy branch (lines 635-646)        *)
(***************************************************************************)
\* the chain as a release without chainHash/chainSig stored it
LegacyChain(chain) == [chain EXCEPT !.chainHash = Undefined, !.chainSig = Undefined]

IsLegacy(chain) ==
    /\ Len(chain.versions) > 0
    /\ chain.chainHash = Undefined \/ chain.chainSig = Undefined

\* the vault is one written by such a release and is opened by a new worker:
\* the stored chain is properly encrypted and signed as a record, nothing is
\* in memory
OpenLegacyVault ==
    \E id \in DOMAIN chainsStore :
        /\ reqs = Empty
        /\ tampersLeft > 0
        /\ StoredChainOk(chainsStore[id])
        /\ ~IsLegacy(ParseJSON(Inflate(Decrypt(chainsStore[id]))))
        /\ Len(ParseJSON(Inflate(Decrypt(chainsStore[id]))).versions) > 0
        /\ chainsStore' =
              Put(chainsStore, id,
                  StoredChain(LegacyChain(ParseJSON(Inflate(Decrypt(chainsStore[id]))))))
        /\ auth' = FALSE
        /\ metadata' = Empty
        /\ cache' = <<>>
        /\ tampersLeft' = tampersLeft - 1
        /\ last' = [op |-> "legacy vault", name |-> "", result |-> "ok"]
        /\ UNCHANGED <<filesStore, metaStore, nextKey, nextChain, faultsLeft, reqs,
                       history, maxCache, appVars>>

NextLegacy ==
    \/ DoInit
    \/ DoLoad
    \/ DoSave
    \/ OpenLegacyVault

SpecLegacy == InitTamper /\ [][NextLegacy]_vars

(***************************************************************************)
(* handlers.init step by step (hashfs-worker.js:18-28): each await of init *)
(* assigns one module variable, and a step that throws leaves the          *)
(* assignments made before it                                              *)
(***************************************************************************)
\* what opening the database does: openDB succeeds, initDatabase falls back
\* to recoverDatabase (lines 436-439), or recoverDatabase's openDB rejects too
OpenOutcomes == {"opened", "recovered", "unavailable"}

\* handlers.init(passphrase): [globals, databases, ok]
InitSteps(g, d, p, outcome) ==
    LET k == DeriveKeys(p)
        g1 == [g EXCEPT !.keys = k, !.passphrase = p]
        d2 == IF outcome = "recovered" \/ ~Has(d, k.dbName) THEN Put(d, k.dbName, {})
              ELSE d
        g2 == [g1 EXCEPT !.db = k.dbName, !.index = k.dbName,
                         !.chainKey = k.encKey, !.auth = TRUE]
    IN IF ~k.ok THEN [globals |-> g, databases |-> d, ok |-> FALSE]
       ELSE IF outcome = "unavailable"
       THEN [globals |-> g1, databases |-> d, ok |-> FALSE]
       ELSE [globals |-> g2, databases |-> d2, ok |-> TRUE]

WorkerStep(g, d, op, ok) ==
    /\ globals' = g
    /\ databases' = d
    /\ last' = [op |-> op, name |-> "", result |-> IF ok THEN "ok" ELSE "error"]
    /\ UNCHANGED <<auth, metadata, cache, filesStore, metaStore, chainsStore, nextKey,
                   nextChain, faultsLeft, tampersLeft, reqs, history, maxCache,
                   session, host, file, chat, manager>>

GlobalsInit ==
    \E p \in Passphrases, outcome \in OpenOutcomes :
        /\ reqs = Empty
        /\ LET out == InitSteps(globals, databases, p, outcome)
           IN WorkerStep(out.globals, out.databases, "init", out.ok)

\* handlers.save, lines 112, 155-157: the blob, encrypted with keys.encKey,
\* is put into the 'files' store of db
GlobalsSave ==
    \E f \in {"a"}, bytes \in {"x"} :
        /\ globals.auth
        /\ BlobCount < MaxBlobs
        /\ WorkerStep(globals,
                      [databases EXCEPT ![globals.db] =
                          @ \cup {[name |-> f,
                                   payload |-> EncryptWith(Deflate(bytes),
                                                           globals.keys.encKey),
                                   writer |-> globals.passphrase]}],
                      "save", TRUE)

NextGlobals ==
    \/ GlobalsInit
    \/ GlobalsSave

SpecGlobals == InitVaults /\ [][NextGlobals]_vars

(***************************************************************************)
(* WorkerManager (WorkerManager.js): initWorker, sendToWorker,             *)
(* handleMessage, the request timeout, worker.onerror and terminate.  The  *)
(* vault and session hashes kept by handleMessage belong to the host model *)
(* above.                                                                  *)
(***************************************************************************)
RETRIES == 3            \* initWorker(retries = 3)
MaxRequests == 2        \* sendToWorker calls in a behaviour
MaxBuildFailures == 3   \* constructions of a worker that throw
MaxTerminates == 1      \* terminate() calls

Requests == 1..MaxRequests

\* resolve / reject of the promise sendToWorker returned for call k: a promise
\* changes state once, settles counts the calls made
Settle(m, k, state) ==
    [m EXCEPT !.requests[k].settles = @ + 1,
              !.requests[k].phase = IF @ = "pending" THEN state ELSE @]

\* request.resolve / request.reject of a pendingRequests entry (lines 117-126)
RequestSettle(m, id, state) ==
    Settle([m EXCEPT !.timeouts = @ \ {m.pendingRequests[id]}],
           m.pendingRequests[id], state)

\* pendingRequests.forEach((request, id) => { request.reject(...);
\* pendingRequests.delete(id) }) (lines 36-39, 200-203)
RejectAll(m) ==
    LET calls == Range(m.pendingRequests)
    IN [m EXCEPT
          !.timeouts = @ \ calls,
          !.requests = [k \in DOMAIN @ |->
                          IF k \in calls
                          THEN [@[k] EXCEPT !.settles = @ + 1,
                                            !.phase = IF @ = "pending" THEN "rejected"
                                                      ELSE @]
                          ELSE @[k]],
          !.pendingRequests = Empty]

\* one pass of the loop of initialisation n (lines 29-52); built says whether
\* new HashFSWorker() returns or throws
Attempt(m, n, built) ==
    IF built
    THEN [m EXCEPT !.built = @ + 1, !.worker = m.built + 1,
                   !.workers = @ \cup {m.built + 1},
                   !.inits[n].phase = "resolved"]
    ELSE IF m.inits[n].attempt + 1 < RETRIES
    THEN [m EXCEPT !.failures = @ + 1,
                   !.inits[n] = [attempt |-> m.inits[n].attempt + 1,
                                 phase |-> "backoff"]]
    ELSE [m EXCEPT !.failures = @ + 1,
                   !.inits[n] = [attempt |-> m.inits[n].attempt + 1,
                                 phase |-> "rejected"],
                   !.readyPromise = 0]

\* initWorker() up to its first await (lines 19-58): [manager, promise], with
\* promise 0 when it returns at line 20
InitWorker(m, built) ==
    IF m.worker # 0 THEN [manager |-> m, promise |-> 0]
    ELSE IF m.readyPromise # 0 THEN [manager |-> m, promise |-> m.readyPromise]
    ELSE LET n == Len(m.inits) + 1
             started == [m EXCEPT !.inits = Append(@, [attempt |-> 0,
                                                       phase |-> "running"])]
         IN [manager |-> [Attempt(started, n, built) EXCEPT !.readyPromise = n],
             promise |-> n]

\* handleMessage(e) (lines 60-102)
OnMessage(m, msg) ==
    IF msg.type = "progress" THEN m
    ELSE IF Has(m.pendingRequests, msg.id)
    THEN [RequestSettle(m, msg.id, IF msg.success THEN "fulfilled" ELSE "rejected")
            EXCEPT !.pendingRequests = Del(@, msg.id)]
    ELSE m

\* the timeout callback without its pendingRequests.delete(id)
TimedOutKeepingEntry(m, k) ==
    Settle([m EXCEPT !.timeouts = @ \ {k}], k, "rejected")

\* the callback of the request's setTimeout (lines 112-115)
TimedOut(m, k) ==
    Settle([m EXCEPT !.timeouts = @ \ {k},
                     !.pendingRequests = DelAll(@, {m.requests[k].id})],
           k, "rejected")

\* terminate() (lines 197-220)
TerminateManager(m) ==
    [RejectAll(m) EXCEPT !.workers = @ \ {m.worker}, !.worker = 0,
                         !.readyPromise = 0, !.terminated = @ + 1]

ManagerStep(m, op, result) ==
    /\ manager' = m
    /\ last' = [op |-> op, name |-> "", result |-> result]
    /\ UNCHANGED <<auth, metadata, cache, filesStore, metaStore, chainsStore, nextKey,
                   nextChain, faultsLeft, tampersLeft, reqs, history, maxCache,
                   session, databases, host, file, chat, globals>>

\* the state of what await this.initWorker() waits for: initWorker returned
\* at line 20, or the promise of an initialisation
Awaited(m, promise) == IF promise = 0 THEN "resolved" ELSE m.inits[promise].phase

CanBuild(built) == built \/ manager.failures < MaxBuildFailures

\* sendToWorker(type, data) is called (lines 104-106): initWorker runs up to
\* its first await and the call waits for it
CallSendToWorker ==
    \E built \in BOOLEAN :
        /\ Len(manager.requests) < MaxRequests
        /\ CanBuild(built)
        /\ LET out == InitWorker(manager, built)
           IN ManagerStep([out.manager EXCEPT !.requests =
                              Append(@, [phase |-> "awaitInit", init |-> out.promise,
                                         id |-> 0, settles |-> 0, worker |-> 0,
                                         answered |-> FALSE])],
                          "sendToWorker", "ok")

\* an initialisation's back-off has elapsed (line 48) and the loop goes on
BackoffElapsed ==
    \E n \in 1..Len(manager.inits), built \in BOOLEAN :
        /\ manager.inits[n].phase = "backoff"
        /\ CanBuild(built)
        /\ ManagerStep(Attempt(manager, n, built), "backoff", "ok")

\* sendToWorker goes on after await this.initWorker() (lines 108-155); posted
\* says whether worker.postMessage returns or throws
InitAwaited ==
    \E k \in 1..Len(manager.requests), posted \in BOOLEAN :
        LET r == manager.requests[k]
            id == manager.requestId + 1
            issued == [manager EXCEPT
                          !.requestId = id,
                          !.timeouts = @ \cup {k},
                          !.pendingRequests = Put(@, id, k),
                          !.requests[k] = [r EXCEPT !.phase = "pending", !.id = id,
                                                    !.worker = IF posted
                                                               THEN manager.worker
                                                               ELSE 0]]
        IN /\ r.phase = "awaitInit"
           /\ Awaited(manager, r.init) \in {"resolved", "rejected"}
           /\ IF Awaited(manager, r.init) = "rejected" \/ manager.worker = 0
              THEN ManagerStep([manager EXCEPT !.requests[k].phase = "threw"],
                               "sendToWorker", "error")
              ELSE IF posted THEN ManagerStep(issued, "postMessage", "ok")
              ELSE ManagerStep(Settle([issued EXCEPT
                                          !.pendingRequests = Del(@, id),
                                          !.timeouts = @ \ {k}],
                                      k, "rejected"),
                               "postMessage", "error")

\* the worker answers a request it was sent (hashfs-worker.js:727-736)
Respond ==
    \E k \in 1..Len(manager.requests), success \in BOOLEAN :
        /\ manager.requests[k].worker \in manager.workers
        /\ ~manager.requests[k].answered
        /\ ManagerStep([manager EXCEPT
                           !.requests[k].answered = TRUE,
                           !.messages = @ \cup {[type |-> "response",
                                                 id |-> manager.requests[k].id,
                                                 success |-> success]}],
                       "respond", "ok")

\* the worker posts a progress message while it works on a request
\* (hashfs-worker.js:287-291)
Progress ==
    \E k \in 1..Len(manager.requests) :
        /\ manager.requests[k].worker \in manager.workers
        /\ ~manager.requests[k].answered
        /\ ManagerStep([manager EXCEPT
                           !.messages = @ \cup {[type |-> "progress", id |-> 0,
                                                 success |-> FALSE]}],
                       "progress", "ok")

\* worker.onmessage
Deliver ==
    \E msg \in manager.messages :
        ManagerStep(OnMessage([manager EXCEPT !.messages = @ \ {msg}], msg),
                    "message",
                    IF msg.type = "progress" THEN "progress"
                    ELSE IF Has(manager.pendingRequests, msg.id) THEN "ok"
                    ELSE "unknown id")

\* the 30 second timer of call k fires
TimeoutFires(k) ==
    /\ k \in manager.timeouts
    /\ ManagerStep(TimedOut(manager, k), "timeout", "ok")

\* worker.onerror of a worker that was constructed (lines 33-40)
WorkerError ==
    /\ manager.workers # {}
    /\ DOMAIN manager.pendingRequests # {}
    /\ ManagerStep(RejectAll(manager), "onerror", "ok")

CallTerminate ==
    /\ manager.terminated < MaxTerminates
    /\ ManagerStep(TerminateManager(manager), "terminate", "ok")

NextManager ==
    \/ CallSendToWorker
    \/ BackoffElapsed
    \/ InitAwaited
    \/ Respond
    \/ Progress
    \/ Deliver
    \/ \E k \in Requests : TimeoutFires(k)
    \/ WorkerError
    \/ CallTerminate

SpecManager == InitVaults /\ [][NextManager]_vars

\* setTimeout callbacks that stay armed are run by the event loop
SpecManagerLive ==
    SpecManager /\ \A k \in Requests : WF_vars(TimeoutFires(k))

(***************************************************************************)
(* Renaming and deleting through a file instance (useFile.js:144-181)      *)
(***************************************************************************)
NewNames == {"b"}

\* instance.rename(newName), lines 144-161: the request carries the filename
\* the instance was created with as oldName; on success the files of the host
\* are refreshed and the property instance.filename is redefined, nothing else
FileRename(i, h, e, newName) ==
    IF newName = "" \/ ~HostAuth(h) THEN [file |-> i, host |-> h, eng |-> e]
    ELSE LET out == Rename(e, InstName, newName, "none")
         IN IF out.res.ok
            THEN [file |-> [i EXCEPT !.filename = newName],
                  host |-> [h EXCEPT !.files = DOMAIN out.eng.metadata],
                  eng |-> out.eng]
            ELSE [file |-> i, host |-> h, eng |-> out.eng]

\* instance.delete(), lines 163-181: the request names the filename the
\* instance was created with; on success the refs are emptied.  The worker
\* answers {success: true} without files when the name has no record.
FileDelete(i, h, e) ==
    IF ~HostAuth(h) THEN [file |-> i, host |-> h, eng |-> e]
    ELSE LET out == Delete(e, InstName, "none")
         IN IF out.res.ok
            THEN [file |-> [i EXCEPT !.bytes = "", !.dirty = FALSE],
                  host |-> IF Has(e.metadata, InstName)
                           THEN [h EXCEPT !.files = DOMAIN out.eng.metadata] ELSE h,
                  eng |-> out.eng]
            ELSE [file |-> i, host |-> h, eng |-> out.eng]

\* file.rename(newName), awaited with no other request of the instance in flight
CallRename ==
    \E newName \in NewNames :
        /\ file.created /\ file.pending = <<>>
        /\ LET out == FileRename(file, host, Eng, newName)
           IN InstanceStep("rename", out.host, out)

\* file.delete(), awaited with no other request of the instance in flight
CallDelete ==
    /\ file.created /\ file.pending = <<>>
    /\ LET out == FileDelete(file, host, Eng)
       IN InstanceStep("delete", out.host, out)

\* one file instance that is saved, loaded, renamed and deleted
NextRename ==
    \/ Login
    \/ UseFileManual
    \/ Edit
    \/ CallSave(MaxInstKeys)
    \/ CallLoad(MaxInstKeys)
    \/ Reply
    \/ CallRename
    \/ CallDelete

SpecRename == InitInstance /\ [][NextRename]_vars

(***************************************************************************)
(* VaultManager.initVault (useFile.js:226-231): the database is opened,    *)
(* the index is loaded and the quick integrity check runs on both.         *)
(***************************************************************************)
\* performQuickIntegrityCheck, one file (lines 381-412): the keys it adds to
\* referenced and whether the file is removed.  The chain is the record read
\* from 'chains', as in CheckFile.
QuickCheckFile(e, filename) ==
    LET meta == e.metadata[filename]
        fromChain ==
            IF /\ meta.chainId # UnknownChainId
               /\ Has(e.chainsStore, meta.chainId)
               /\ HasVersions(e.chainsStore[meta.chainId])
            THEN LET versions == e.chainsStore[meta.chainId].versions
                 IN {versions[i].key : i \in 1..Len(versions)}
                        \cap ((DOMAIN e.filesStore) \ {NoKey})
            ELSE {}
        fromActive == {meta.activeKey} \cap ((DOMAIN e.filesStore) \ {NoKey})
        isValid == fromChain # {} \/ fromActive # {}
    IN [referenced |-> fromChain \cup fromActive,
        remove |-> ~isValid /\ (meta.activeKey # NoKey \/ meta.headVersion > 0)]

\* performQuickIntegrityCheck(db, metadata, encKey), lines 377-425: the files
\* removed from the index given, then cleanupOrphans
PerformQuickIntegrityCheck(e, fault) ==
    LET toRemove == {f \in DOMAIN e.metadata : QuickCheckFile(e, f).remove}
        referenced == UNION {QuickCheckFile(e, f).referenced : f \in DOMAIN e.metadata}
    IN [e EXCEPT !.metadata = [f \in DOMAIN e.metadata \ toRemove |-> e.metadata[f]],
                 !.filesStore = CleanupOrphans(e, referenced, fault)]

\* initVault(keys): loadMetadata of the VaultManager (lines 291-306) takes the
\* same steps as the worker's; the index returned is the one checked
InitVaultOf(e, fault) ==
    PerformQuickIntegrityCheck(
        [e EXCEPT !.auth = TRUE, !.metadata = LoadMetadata(e), !.cache = <<>>], fault)

InitVault ==
    \E fault \in CheckFaults :
        /\ reqs = Empty
        /\ fault = "none" \/ faultsLeft > 0
        /\ LET e == InitVaultOf(Eng, fault)
           IN /\ auth' = e.auth
              /\ metadata' = e.metadata
              /\ cache' = e.cache
              /\ filesStore' = e.filesStore
              /\ faultsLeft' = IF fault = "none" THEN faultsLeft ELSE faultsLeft - 1
              /\ last' = [op |-> "initVault", name |-> "",
                          result |-> IF fault = "cleanup" THEN "cleanup" ELSE "ok"]
              /\ UNCHANGED <<metaStore, chainsStore, nextKey, nextChain, tampersLeft,
                             reqs, history, maxCache, appVars>>

\* a vault written by saves, blobs lost from outside, opened through the
\* VaultManager
NextQuick ==
    \/ DoInit
    \/ DoSave
    \/ LoseBlob
    \/ InitVault

SpecQuick == InitCheck /\ [][NextQuick]_vars

(***************************************************************************)
(* Properties                                                              *)
(***************************************************************************)
\* the chain the engine works with for file f, and its last entry
ChainOf(e, f) == GetChain(e, e.metadata[f].chainId).chain
LastEntry(chain) == chain.versions[Len(chain.versions)]

\* a save request for f can be issued in this state
CanSave(f) ==
    /\ auth
    /\ reqs = Empty
    /\ nextKey < MaxKeys
    /\ Has(metadata, f) \/ nextChain < MaxChains

\* C1: in every reachable state, blob losses included, a save(f, X) that
\* returns success (a new version v, or unchanged) is followed by a latest
\* load(f) that returns X and reports version = currentVersion = the head
\* version (v when a version was written).  Stated for version limits >= 1.
C1_LoadReturnsSaved ==
    \A f \in Names, X \in Contents, mime \in Mimes, limit \in VersionLimits \ {0} :
        LET s == Save(Eng, f, X, mime, limit, "none")
            l == Load(s.eng, f, Null, FALSE, "none")
        IN (CanSave(f) /\ s.res.ok) =>
              /\ l.res.ok
              /\ l.res.bytes = X
              /\ l.res.version = s.eng.metadata[f].headVersion
              /\ l.res.currentVersion = l.res.version
              /\ ~s.res.unchanged => l.res.version = s.res.version

\* C2: two saves of one file with different contents, the second arriving
\* while the first is suspended (both arrive with the head at n), both answer
\* success with the consecutive versions n+1 and n+2; head_version ends at
\* n+2 and, when nothing is pruned, the chain ends with the two entries
\* numbered n+1 and n+2.
C2_OverlappingSavesSerialized ==
    \A s1, s2 \in DOMAIN reqs :
        LET r1 == reqs[s1]
            r2 == reqs[s2]
            n == r1.startHead
            chain == ChainOf(Eng, r1.name).versions
        IN (/\ s1 # s2
            /\ r1.name = r2.name /\ r1.bytes # r2.bytes
            /\ r1.overlapped /\ r2.overlapped /\ r2.startHead = n
            /\ r1.pc = "done" /\ r2.pc = "done"
            /\ r1.result = "ok" /\ r2.result = "ok")
           => /\ {r1.version, r2.version} = {n + 1, n + 2}
              /\ metadata[r1.name].headVersion = n + 2
              /\ (r1.limit = DEFAULT_VERSION_LIMIT /\ r2.limit = DEFAULT_VERSION_LIMIT)
                    => /\ Len(chain) >= 2
                       /\ chain[Len(chain) - 1].version = n + 1
                       /\ chain[Len(chain)].version = n + 2

\* C3: a save that fails at a step up to and including the commit of
\* transaction A (compress, encrypt, blob put, metadata put, commit) leaves
\* the files, meta and chains stores and the in-memory metadata index as they
\* were before the call.
C3_FailedSaveChangesNothing ==
    [][(last'.op = "save" /\ last'.result \in {"blobPut", "commit"})
          => /\ filesStore' = filesStore
             /\ metaStore' = metaStore
             /\ chainsStore' = chainsStore
             /\ metadata' = metadata]_vars

\* the metadata index as the meta store holds it
PersistedIndex(e) == ParseJSON(Decrypt(e.metaStore["index"])).files

\* C4: a latest load of f whose head blob is missing recovers to the nearest
\* earlier chain entry whose blob exists and decrypts: head_version,
\* active_key and last_size of the record become that entry's, the metadata
\* is persisted and the entry's content is returned flagged recovered; with no
\* such entry the record of f is removed, the metadata is persisted and the
\* load fails as corrupted.  A load of an explicit version whose blob is
\* missing fails as corrupted and changes neither the index nor the stores.
C4_MissingHeadBlobRecovery ==
    \A f \in DOMAIN metadata, validate \in BOOLEAN :
        LET chain == ChainOf(Eng, f)
            n == Len(chain.versions)
            usable == {i \in 1..(n - 1) : BlobUsable(Eng, chain.versions[i].key)}
            nearest == CHOOSE i \in usable : \A j \in usable : j <= i
            entry == chain.versions[nearest]
            out == Load(Eng, f, Null, validate, "none")
        IN /\ (/\ auth
               /\ metadata[f].activeKey # NoKey
               /\ n > 0
               /\ ~Has(filesStore, LastEntry(chain).key))
              => /\ Has(out.eng.metaStore, "index")
                 /\ PersistedIndex(out.eng) = out.eng.metadata
                 /\ out.eng.filesStore = filesStore
                 /\ out.eng.chainsStore = chainsStore
                 /\ IF usable # {}
                    THEN /\ out.res.ok
                         /\ out.res.recovered
                         /\ out.res.bytes = BlobContent(Eng, entry.key)
                         /\ out.res.version = entry.version
                         /\ out.eng.metadata =
                              [metadata EXCEPT ![f] =
                                  [@ EXCEPT !.headVersion = entry.version,
                                            !.activeKey = entry.key,
                                            !.lastSize = ByteLength(out.res.bytes)]]
                    ELSE /\ ~out.res.ok
                         /\ out.res.error = "File is corrupted"
                         /\ out.eng.metadata = Del(metadata, f)
           /\ \A v \in 1..MaxKeys :
                LET t == TargetIndex(chain, v)
                    one == Load(Eng, f, v, validate, "none")
                IN (/\ auth
                    /\ metadata[f].activeKey # NoKey
                    /\ t # 0
                    /\ ~Has(filesStore, chain.versions[t].key))
                   => /\ ~one.res.ok
                      /\ one.res.error = "File is corrupted"
                      /\ one.eng.metadata = metadata
                      /\ one.eng.metaStore = metaStore
                      /\ one.eng.filesStore = filesStore
                      /\ one.eng.chainsStore = chainsStore

\* C4 happens: a latest load has recovered a three-entry chain to its first
\* entry, the head blob being lost and the second entry's blob unusable
C4_RecoveredPastUnusableEntry ==
    /\ last.op = "load"
    /\ last.result = "recovered"
    /\ Has(metadata, last.name)
    /\ LET chain == ChainOf(Eng, last.name)
       IN /\ Len(chain.versions) = 3
          /\ ~Has(filesStore, chain.versions[3].key)
          /\ ~BlobUsable(Eng, chain.versions[2].key)
          /\ metadata[last.name].headVersion = chain.versions[1].version
          /\ metadata[last.name].activeKey = chain.versions[1].key

\* the latest step was an engine operation that answered success
Succeeded(ops) ==
    /\ last.op \in ops
    /\ last.result \in {"ok", "recovered", "unchanged"}

\* C5: after a successful save, load (with or without head recovery) or
\* rename, every file of the index whose chain has at least one entry has
\* head_version equal to the version number of the chain's last entry.
C5_HeadIsLastChainEntry ==
    Succeeded({"save", "load", "rename"}) =>
        \A f \in DOMAIN metadata :
            LET chain == ChainOf(Eng, f)
            IN Len(chain.versions) > 0 =>
                  metadata[f].headVersion = LastEntry(chain).version

\* C6: after a successful save (with any version limit the engine accepts),
\* load, rename or delete, every record with an active key has a blob under
\* that key whose decrypted, inflated content hashes to the hash of the last
\* entry of the file's chain, and that entry's signature verifies.
C6_ActiveBlobIsHead ==
    Succeeded({"save", "load", "rename", "delete"}) =>
        \A f \in DOMAIN metadata :
            LET chain == ChainOf(Eng, f)
                k == metadata[f].activeKey
            IN k # NoKey =>
                  /\ BlobUsable(Eng, k)
                  /\ Len(chain.versions) > 0
                  /\ Hash(BlobContent(Eng, k)) = LastEntry(chain).hash
                  /\ Verify(LastEntry(chain).hash, LastEntry(chain).sig)

\* the version numbers of a chain strictly ascend
Ascending(versions) ==
    \A i, j \in 1..Len(versions) : i < j => versions[i].version < versions[j].version

\* C7: in every reachable state the entries of every chain, as the chains
\* store holds it and as the engine caches it, are in strictly ascending
\* order of version number.
C7_ChainVersionsAscending ==
    /\ \A i \in 1..Len(cache) : Ascending(cache[i].chain.versions)
    /\ \A id \in DOMAIN chainsStore :
          StoredChainOk(chainsStore[id]) =>
              Ascending(ParseJSON(Inflate(Decrypt(chainsStore[id]))).versions)

\* C8: whatever the files store holds (blobs missing, altered or exchanged),
\* every load that succeeds with non-empty content, recovered or not, returns
\* bytes whose hash is the hash of a chain entry carrying the reported
\* version number, and that entry's signature verifies.
C8_LoadedContentMatchesEntry ==
    \A f \in Names, v \in LoadVersions, validate \in BOOLEAN :
        LET out == Load(Eng, f, v, validate, "none")
            chain == ChainOf(Eng, f)
        IN (out.res.ok /\ out.res.bytes # "") =>
              \E i \in 1..Len(chain.versions) :
                  /\ chain.versions[i].version = out.res.version
                  /\ chain.versions[i].hash = Hash(out.res.bytes)
                  /\ Verify(chain.versions[i].hash, chain.versions[i].sig)

\* the steps of load whose failure is an integrity error (a failed decrypt,
\* hash or signature check, chain validation, a corrupted file or version)
IntegrityFailures == {"decrypt", "hash", "sig", "validate", "blob"}
FailsIntegrity(out) == ~out.res.ok /\ out.res.failedAt \in IntegrityFailures

\* the chain a record of the chains store was written with
StoredPayload(id) == ParseJSON(Inflate(chainsStore[id].data))

\* C9: right after the payload of a chain record is altered or its sig is
\* removed, every load of the file of that chain (latest, or any version the
\* chain holds) fails with an integrity error; right after the ciphertext of
\* a version blob is altered, every load of that version fails with an
\* integrity error.  Whatever the engine has cached.
C9_TamperingFailsNextLoad ==
    \A f \in DOMAIN metadata, validate \in BOOLEAN :
        LET id == metadata[f].chainId
            chain == ChainOf(Eng, f)
            n == Len(chain.versions)
        IN (auth /\ metadata[f].activeKey # NoKey) =>
            /\ (/\ last.op \in {"alter chain", "remove chain sig"}
                /\ Has(chainsStore, id)
                /\ ~StoredChainOk(chainsStore[id]))
               => \A v \in {Null} \cup {e.version : e \in Range(StoredPayload(id).versions)} :
                     FailsIntegrity(Load(Eng, f, v, validate, "none"))
            /\ last.op = "alter blob"
               => \A i \in 1..n :
                     (/\ Has(filesStore, chain.versions[i].key)
                      /\ ~CanDecrypt(filesStore[chain.versions[i].key]))
                     => \A v \in {chain.versions[i].version}
                                  \cup (IF i = n THEN {Null} ELSE {}) :
                           FailsIntegrity(Load(Eng, f, v, validate, "none"))

\* the blob of a chain entry is present and fails decryption, the hash check
\* or the signature check
FailsChecks(entry) ==
    /\ Has(filesStore, entry.key)
    /\ \/ ~CanDecrypt(filesStore[entry.key])
       \/ Hash(BlobContent(Eng, entry.key)) # entry.hash
       \/ ~Verify(entry.hash, entry.sig)
\* the blob of a chain entry is present and passes them
Intact(entry) == Has(filesStore, entry.key) /\ ~FailsChecks(entry)

\* C10: a latest load whose head blob is present but fails decryption, the
\* hash check or the signature check takes the recovery walk: it returns the
\* nearest earlier intact version flagged recovered, or, with none, removes
\* the record and fails.  A load of an explicit version whose blob fails
\* these checks fails and changes neither the index nor the stores.
C10_CorruptHeadTriggersRecovery ==
    \A f \in DOMAIN metadata, validate \in BOOLEAN :
        LET chain == ChainOf(Eng, f)
            n == Len(chain.versions)
            intact == {i \in 1..(n - 1) : Intact(chain.versions[i])}
            nearest == CHOOSE i \in intact : \A j \in intact : j <= i
            out == Load(Eng, f, Null, validate, "none")
        IN (auth /\ metadata[f].activeKey # NoKey) =>
            /\ (n > 0 /\ FailsChecks(LastEntry(chain)))
               => IF intact # {}
                  THEN /\ out.res.ok
                       /\ out.res.recovered
                       /\ out.res.version = chain.versions[nearest].version
                  ELSE /\ ~out.res.ok
                       /\ ~Has(out.eng.metadata, f)
            /\ \A v \in 1..MaxKeys :
                  LET t == TargetIndex(chain, v)
                      one == Load(Eng, f, v, validate, "none")
                  IN (t # 0 /\ FailsChecks(chain.versions[t]))
                     => /\ ~one.res.ok
                        /\ one.eng.metadata = metadata
                        /\ one.eng.metaStore = metaStore
                        /\ one.eng.filesStore = filesStore
                        /\ one.eng.chainsStore = chainsStore

Max(a, b) == IF a >= b THEN a ELSE b

\* C11: after n >= 1 successive successful saves of pairwise different
\* contents to a fresh file, all with version limit L >= 1, the chain (as
\* the engine sees it and as the chains store holds it) retains exactly the
\* versions max(1, n-L+1)..n, each with the hash of the content saved under
\* that number; pruned.count is max(0, n-L) and pruned.oldestKept is
\* max(1, n-L+1); the files store holds the blobs of the retained versions and
\* no other; load(f, v) fails with version-not-found for a pruned v and
\* returns the v-th saved content for a retained v.
C11_PruningKeepsNewest ==
    LET n == Len(history.saved)
        L == history.limit
        f == history.name
        first == Max(1, n - L + 1)
        chain == ChainOf(Eng, f)
        id == metadata[f].chainId
    IN n >= 1 =>
        /\ Has(metadata, f)
        /\ Has(chainsStore, id)
        /\ StoredChainOk(chainsStore[id])
        /\ StoredPayload(id) = chain
        /\ Len(chain.versions) = n - first + 1
        /\ Len(chain.versions) <= L
        /\ \A i \in 1..Len(chain.versions) :
              /\ chain.versions[i].version = first + i - 1
              /\ chain.versions[i].hash = Hash(history.saved[first + i - 1])
        /\ chain.pruned.count = Max(0, n - L)
        /\ chain.pruned.oldestKept = first
        /\ DOMAIN filesStore = {chain.versions[i].key : i \in 1..Len(chain.versions)}
        /\ Cardinality(DOMAIN filesStore) = n - first + 1
        /\ \A v \in 1..n :
              LET out == Load(Eng, f, v, FALSE, "none")
              IN IF v < first
                 THEN ~out.res.ok /\ out.res.failedAt = "version"
                 ELSE /\ out.res.ok
                      /\ out.res.bytes = history.saved[v]
                      /\ out.res.version = v

\* C11 happens: four saves with limit 2 have pruned two versions
C11_TwoVersionsPruned ==
    /\ Len(history.saved) = 4
    /\ history.limit = 2
    /\ Has(metadata, history.name)
    /\ ChainOf(Eng, history.name).pruned.count = 2
    /\ last.op = "save"

\* save(f, X) directly after a successful save(f, X), the first with a
\* version limit of the given set: the second answers unchanged and leaves
\* the chain, head_version, active_key and the blobs as they were; the index
\* is rewritten only when the MIME differs, and then only mime changes
SameSaveUnchanged(limits) ==
    \A f \in Names, X \in Contents, mime \in Mimes, limit \in limits,
       mime2 \in Mimes, limit2 \in VersionLimits :
        LET s1 == Save(Eng, f, X, mime, limit, "none")
            s2 == Save(s1.eng, f, X, mime2, limit2, "none")
            before == s1.eng.metadata[f]
        IN (CanSave(f) /\ s1.res.ok) =>
              /\ s2.res.ok
              /\ s2.res.unchanged
              /\ ChainOf(s2.eng, f) = ChainOf(s1.eng, f)
              /\ s2.eng.chainsStore = s1.eng.chainsStore
              /\ s2.eng.filesStore = s1.eng.filesStore
              /\ s2.eng.metadata = [s1.eng.metadata EXCEPT ![f].mime = mime2]
              /\ IF mime2 = before.mime
                 THEN s2.eng.metaStore = s1.eng.metaStore
                 ELSE PersistedIndex(s2.eng) = s2.eng.metadata

\* C12: save(f, X) issued directly after a successful save(f, X) returns
\* unchanged and leaves the chain, head_version, active_key and the set of
\* blobs as they were; the metadata index is rewritten only when the supplied
\* MIME differs from the recorded one, and then only the mime field changes.
C12_SameSaveUnchanged == SameSaveUnchanged(VersionLimits)

\* the blob keys the entries of a chain name
ChainKeys(chain) == {chain.versions[i].key : i \in 1..Len(chain.versions)} \ {NoKey}
\* the chain stored under an id, as save wrote it
PersistedChain(e, id) ==
    IF Has(e.chainsStore, id) /\ CanDecrypt(e.chainsStore[id])
    THEN ParseJSON(Inflate(Decrypt(e.chainsStore[id])))
    ELSE EmptyChain
\* the blob keys file f holds on to: its stored chain's, the ones of the chain
\* the engine works with, and its active_key
FileKeys(e, f) ==
    (ChainKeys(PersistedChain(e, e.metadata[f].chainId))
        \cup ChainKeys(ChainOf(e, f)) \cup {e.metadata[f].activeKey}) \ {NoKey}

\* C13: after a delete(f) that succeeds there is no record for f in the
\* index (in memory and persisted), no chain under f's chain_id and no blob
\* that an entry of f's chain or f's active_key referenced; the records,
\* chains and blobs of the other files are as before; a delete of a name not
\* in the index succeeds and changes nothing; a later save(f, X) starts a new
\* history at version 1.
C13_DeleteRemovesFile ==
    \A f \in FileNames :
        LET out == Delete(Eng, f, "none")
            d == out.eng
        IN (auth /\ reqs = Empty /\ out.res.ok) =>
              IF ~Has(metadata, f)
              THEN [d EXCEPT !.cache = cache] = Eng
              ELSE /\ ~Has(d.metadata, f)
                   /\ ~Has(PersistedIndex(d), f)
                   /\ ~Has(d.chainsStore, metadata[f].chainId)
                   /\ \A k \in FileKeys(Eng, f) : ~Has(d.filesStore, k)
                   /\ \A g \in DOMAIN metadata \ {f} :
                        /\ Has(d.metadata, g) /\ d.metadata[g] = metadata[g]
                        /\ PersistedIndex(d)[g] = metadata[g]
                        /\ metadata[g].chainId # metadata[f].chainId =>
                             /\ PersistedChain(d, metadata[g].chainId)
                                  = PersistedChain(Eng, metadata[g].chainId)
                             /\ \A k \in FileKeys(Eng, g) :
                                  Has(filesStore, k) =>
                                     /\ Has(d.filesStore, k)
                                     /\ d.filesStore[k] = filesStore[k]
                   /\ \A X \in Contents, mime \in Mimes :
                        LET s == Save(d, f, X, mime, DEFAULT_VERSION_LIMIT, "none")
                        IN s.res.ok =>
                              /\ s.res.version = 1
                              /\ ~s.res.unchanged
                              /\ Len(ChainOf(s.eng, f).versions) = 1
                              /\ LastEntry(ChainOf(s.eng, f)).version = 1
                              /\ LastEntry(ChainOf(s.eng, f)).hash = Hash(X)

WrittenVersions(e, f) == PersistedChain(e, e.metadata[f].chainId).versions

\* C15: after the integrity check completes, a blob key is in files if and
\* only if a version entry of a surviving file's chain or a surviving file's
\* active_key references it.
C15_BlobsAreTheReferencedOnes ==
    \A fault \in CheckFaults :
        LET d == PerformFullIntegrityCheck(Eng, fault).eng
            referencedKeys == UNION {FileKeys(d, f) : f \in DOMAIN d.metadata}
        IN (auth /\ reqs = Empty) => DOMAIN d.filesStore = referencedKeys

\* C16: the integrity check removes a file only when no version of its
\* chain is intact (a file with an intact version is never removed), and
\* every version whose blob fails decryption, the hash check or the
\* signature check is reported in issues.
C16_IntactFilesSurvive ==
    LET out == PerformFullIntegrityCheck(Eng, "none")
    IN (auth /\ reqs = Empty) =>
          \A f \in DOMAIN metadata :
              LET versions == WrittenVersions(Eng, f)
              IN /\ (\E i \in 1..Len(versions) : Intact(versions[i]))
                      => f \notin out.res.filesRemoved
                 /\ \A i \in 1..Len(versions) :
                      FailsChecks(versions[i])
                         => <<f, versions[i].version>> \in out.res.issues

\* loadMetadata cannot use meta/index: absent, undecryptable or of a wrong shape
IndexUnusable ==
    \/ ~Has(metaStore, "index")
    \/ ~CanDecrypt(metaStore["index"])
    \/ ~IsValidMetadata(ParseJSON(Decrypt(metaStore["index"])).files)

\* C17: on init with meta/index absent, undecryptable or failing the shape
\* validation, the index is rebuilt from the chains: every stored chain, as
\* save wrote it, whose last version's blob exists gets the record
\* recovered_<chain id> with that chain_id, head_version the last entry's
\* version and active_key the last entry's key.
C17_IndexRebuiltFromChains ==
    LET out == InitHandler(Eng)
    IN IndexUnusable =>
          \A id \in DOMAIN chainsStore :
              LET versions == PersistedChain(Eng, id).versions
                  latest == versions[Len(versions)]
                  name == RecoveredName(id)
              IN (Len(versions) > 0 /\ Has(filesStore, latest.key)) =>
                    /\ Has(out.eng.metadata, name)
                    /\ out.eng.metadata[name].chainId = id
                    /\ out.eng.metadata[name].headVersion = latest.version
                    /\ out.eng.metadata[name].activeKey = latest.key

\* C18: at the end of every engine operation, successful or failed, each
\* chain id in the cache is cached with the chain stored under it: a chain
\* changed in memory by a save whose chain write did not complete is not in
\* the cache, and after delete(f) the cache has no entry for f's chain.
C18_CacheMatchesStore ==
    reqs = Empty =>
        \A i \in 1..Len(cache) :
            /\ Has(chainsStore, cache[i].id)
            /\ cache[i].chain = PersistedChain(Eng, cache[i].id)

\* the chain ids in a cache, and the one evicted next (the first in the
\* Map's insertion order)
CachedIds(c) == {c[i].id : i \in 1..Len(c)}
NextVictim(c) == c[1].id

\* C19: the cache never holds more than its capacity; a getChain hit makes
\* the chain the most recently used; a save that writes a chain which is
\* already cached evicts nothing, and the chain saveChain has just written
\* is not the next eviction victim while other chains are cached.
C19_CacheIsLRU ==
    /\ Len(cache) <= maxCache
    /\ \A id \in CachedIds(cache) :
          LET after == GetChain(Eng, id).cache
          IN /\ CachedIds(after) = CachedIds(cache)
             /\ after[Len(after)].id = id
    /\ \A f \in DOMAIN metadata, X \in Contents, mime \in Mimes :
          LET id == metadata[f].chainId
              s == Save(Eng, f, X, mime, DEFAULT_VERSION_LIMIT, "none")
              written == auth /\ reqs = Empty /\ s.res.ok /\ ~s.res.unchanged
          IN /\ (written /\ CacheHas(cache, id))
                   => CachedIds(cache) \subseteq CachedIds(s.eng.cache)
             /\ (written /\ Len(s.eng.cache) > 1) => NextVictim(s.eng.cache) # id

\* the two errors validateChainIntegrity raises about the chain as a whole
ChainMismatch ==
    {"Chain hash mismatch - version history corrupted",
     "Chain signature invalid - version history tampered"}
\* chain_hash is the hash over the chain's versions and chain_sig verifies
ChainSealed(chain) ==
    /\ chain.chainHash = ComputeChainHash(chain.versions)
    /\ Verify(chain.chainHash, chain.chainSig)

\* C20: every chain in the store, and the chain stored by every successful
\* save that writes a version (with or without pruning), has chain_hash
\* equal to the hash recomputed over its current versions and a chain_sig
\* that verifies; a load with validate never reports a chain hash or chain
\* signature mismatch on a chain that only save has written.
C20_ChainHashIsCurrent ==
    /\ \A id \in DOMAIN chainsStore : ChainSealed(PersistedChain(Eng, id))
    /\ \A f \in Names, v \in LoadVersions :
          auth => Load(Eng, f, v, TRUE, "none").res.error \notin ChainMismatch
    /\ \A f \in Names, X \in Contents, mime \in Mimes, limit \in VersionLimits :
          LET s == Save(Eng, f, X, mime, limit, "none")
              id == s.eng.metadata[f].chainId
          IN (CanSave(f) /\ s.res.ok /\ ~s.res.unchanged) =>
                /\ Has(s.eng.chainsStore, id)
                /\ ChainSealed(PersistedChain(s.eng, id))
                /\ \A v \in LoadVersions :
                      Load(s.eng, f, v, TRUE, "none").res.error \notin ChainMismatch

\* a save has succeeded on a chain that was pruned and still has a version,
\* and a load with validate of that file succeeds
C20_ValidatedAfterPruning ==
    /\ last.op = "save"
    /\ last.result = "ok"
    /\ Has(metadata, last.name)
    /\ LET chain == PersistedChain(Eng, metadata[last.name].chainId)
       IN /\ chain.pruned.count > 0
          /\ Len(chain.versions) > 0
    /\ Load(Eng, last.name, Null, TRUE, "none").res.ok

\* C21: when the deletion of the pruned versions' blobs fails after the new
\* version and the chain were written, save still answers success with the
\* new version number, index and chain describe the new version, and the
\* only difference to a save without the failure is that the blobs which
\* were to be deleted stay in files, named by no chain entry and no
\* active_key.  Stated for version limits >= 1.
C21_CleanupFailureNotFatal ==
    \A f \in Names, X \in Contents, mime \in Mimes, limit \in VersionLimits \ {0} :
        LET clean == Save(Eng, f, X, mime, limit, "none")
            out == Save(Eng, f, X, mime, limit, "cleanup")
            dropped == (DOMAIN filesStore \cup {nextKey + 1}) \ DOMAIN clean.eng.filesStore
        IN (CanSave(f) /\ clean.res.ok /\ ~clean.res.unchanged /\ dropped # {}) =>
              /\ out.res.ok
              /\ out.res.version = clean.res.version
              /\ out.eng.metadata = clean.eng.metadata
              /\ out.eng.metaStore = clean.eng.metaStore
              /\ out.eng.chainsStore = clean.eng.chainsStore
              /\ DOMAIN out.eng.filesStore = DOMAIN clean.eng.filesStore \cup dropped
              /\ \A k \in dropped :
                    \A g \in DOMAIN out.eng.metadata : k \notin FileKeys(out.eng, g)

\* every file of the index has a head version that loads
AllLive(e) ==
    \A f \in DOMAIN e.metadata :
        /\ e.metadata[f].headVersion >= 1
        /\ Load(e, f, Null, FALSE, "none").res.ok

\* C22: a vault in which every file has a live head version, exported as a
\* ZIP archive and imported into an empty vault with every returned item
\* saved, gives a vault with the same file names, and for each file the same
\* MIME type and head plaintext, at version 1.
C22_ZipRoundTrip ==
    LET back == HostImportZip(EmptyVault, ExportZip(Eng))
    IN (auth /\ reqs = Empty /\ AllLive(Eng)) =>
          /\ DOMAIN back.metadata = DOMAIN metadata
          /\ \A f \in DOMAIN metadata :
                /\ back.metadata[f].mime = metadata[f].mime
                /\ Load(back, f, Null, FALSE, "none").res.bytes =
                      Load(Eng, f, Null, FALSE, "none").res.bytes
                /\ back.metadata[f].headVersion = 1

\* the passphrases key derivation accepts
Accepted == {p \in Passphrases : DeriveKeys(p).ok}

\* a session opened with passphrase q finds the blob in its database, or can
\* decrypt it
Reaches(q, n, blob) ==
    \/ DeriveKeys(q).dbName = n
    \/ CanDecryptWith(blob.payload, DeriveKeys(q).encKey)

C24_UnauthenticatedRejected ==
    ~auth =>
        \A f \in Names :
            LET rejected(out) ==
                    /\ ~out.res.ok
                    /\ out.res.error = "Not authenticated"
                    /\ out.eng = Eng
            IN /\ \A v \in LoadVersions, validate \in BOOLEAN :
                      rejected(Load(Eng, f, v, validate, "none"))
               /\ \A X \in Contents, mime \in Mimes, limit \in VersionLimits :
                      rejected(Save(Eng, f, X, mime, limit, "none"))
               /\ rejected(Delete(Eng, f, "none"))
               /\ \A new \in Names \cup {""} : rejected(Rename(Eng, f, new, "none"))

\* loadMetadata takes its rebuild path: meta/index is there and cannot be used
IndexRebuilt(e) ==
    /\ Has(e.metaStore, "index")
    /\ \/ ~CanDecrypt(e.metaStore["index"])
       \/ ~IsValidMetadata(ParseJSON(Decrypt(e.metaStore["index"])).files)

\* C25: the result of init carries a recovery-info record exactly when init
\* dropped and recreated the store (the open or the health probe failed) or
\* rebuilt the metadata index from the chains.
C25_RecoveryIsReported ==
    \A dropped \in BOOLEAN, p \in Passphrases :
        LET opened == IF dropped THEN RecoverDatabase(Eng) ELSE Eng
            result == InitResult(InitHandler(opened).eng, DeriveKeys(p), 0)
        IN (reqs = Empty /\ DeriveKeys(p).ok) =>
              (({"recovery_info", "recoveryInfo"} \cap DOMAIN result # {})
                  <=> (dropped \/ IndexRebuilt(opened)))

\* C26: init of the host while a vault is unlocked.  With the passphrase of
\* the unlocked vault (same base fingerprint) the host keeps its auth flag,
\* its file list and its worker, and replaces the session hash only.  With
\* the passphrase of another vault the worker is replaced by a fresh one and
\* the host ends unlocked with the file list of the newly unlocked vault.
C26_ReinitSwitchesVault ==
    \A p \in Passphrases :
        LET k == DeriveKeys(p)
            out == UseHashFSInit(host, session, databases, p)
        IN (HostAuth(host) /\ session # NoSession /\ k.ok) =>
              IF BaseHash(k) = BaseHash(session.keys)
              THEN out.host = [host EXCEPT !.sessionHash = out.host.sessionHash,
                                           !.clock = out.host.clock]
              ELSE /\ out.host.worker # host.worker
                   /\ HostAuth(out.host)
                   /\ out.host.vaultHash = BaseHash(k)
                   /\ out.host.files = VaultFiles(out.databases, k.dbName)

\* a save of the instance is in flight
SaveInFlight == \E n \in 1..Len(file.pending) : file.pending[n].kind = "save"

\* C27: whenever the dirty flag of a file instance is false and no save of
\* the instance is in flight, its in-memory bytes are the content last
\* loaded from or last saved to the vault (an edit made while a save is in
\* flight is still dirty when the save completes).
C27_CleanMeansSaved ==
    (file.created /\ ~file.dirty /\ ~SaveInFlight /\ file.synced # NotSynced) =>
        file.bytes = file.synced

\* the instance after file.load(version) and the delivery of its reply, from
\* a state with nothing in flight
AfterLoad(version) ==
    LET sent == FileLoad(file, host, Eng, version)
    IN Replied([sent.file EXCEPT !.pending = <<>>], Head(sent.file.pending))

\* C28: in every state of a file instance reached through loads, saves
\* (including saves that prune old versions), undos and redos, canUndo means
\* that version currentVersion - 1 is retained in the chain and undo() loads
\* it, and canRedo means the same for currentVersion + 1 and redo().
C28_UndoRedoLoadRetained ==
    /\ CanUndo(file) =>
          /\ Load(Eng, InstName, file.currentVersion - 1, FALSE, "none").res.ok
          /\ \E n \in 1..Len(ChainOf(Eng, InstName).versions) :
                ChainOf(Eng, InstName).versions[n].version = file.currentVersion - 1
          /\ file.pending = <<>> =>
                AfterLoad(file.currentVersion - 1).currentVersion = file.currentVersion - 1
    /\ CanRedo(file) =>
          /\ Load(Eng, InstName, file.currentVersion + 1, FALSE, "none").res.ok
          /\ \E n \in 1..Len(ChainOf(Eng, InstName).versions) :
                ChainOf(Eng, InstName).versions[n].version = file.currentVersion + 1
          /\ file.pending = <<>> =>
                AfterLoad(file.currentVersion + 1).currentVersion = file.currentVersion + 1

\* C29: after close() every file instance created earlier is cleared: its
\* bytes are empty or its initial string content, dirty is false,
\* currentVersion is 0 and availableVersions is {0, 0}.
C29_ClosedMeansCleared ==
    [][(HostAuth(host) /\ ~HostAuth(host') /\ file.created) =>
          /\ file'.bytes \in {"", file.initial}
          /\ ~file'.dirty
          /\ file'.currentVersion = 0
          /\ file'.availableVersions = [min |-> 0, max |-> 0]]_vars

\* the messages stored in the chunk files of the conversation, in file order
RECURSIVE StoredFrom(_, _)
StoredFrom(files, chunkIdx) ==
    IF chunkIdx > (MaxMessages - 1) \div ChunkSize THEN <<>>
    ELSE ReadChunk(files, chunkIdx) \o StoredFrom(files, chunkIdx + 1)

Stored == StoredFrom(chat.files, 0)
ChatQuiet == \A c \in Calls : chat.calls[c].pc = "idle"

\* C30: for any interleaving of addMessage calls on one conversation, once
\* the calls have returned every stored message has an id no other message
\* has, the ids are 1, 2, 3, ... without gaps, the conversation's lastId is
\* the number of stored messages, and every message of a call is in the
\* chunk files.
C30_AddMessageIdsSequential ==
    ChatQuiet =>
        /\ \A i, j \in 1..Len(Stored) : i # j => Stored[i].id # Stored[j].id
        /\ \A i \in 1..Len(Stored) : Stored[i].id = i
        /\ ReadMeta(chat.files).lastId = Len(Stored)
        /\ Len(Stored) = chat.issued
        /\ \A n \in 1..chat.issued : \E i \in 1..Len(Stored) : Stored[i].content = n

\* the chain stored under an id carries a chainHash that matches its versions
\* and a chainSig that verifies
StoredChainSealed(e, id) ==
    /\ Has(e.chainsStore, id)
    /\ StoredChainOk(e.chainsStore[id])
    /\ PersistedChain(e, id).chainHash = ComputeChainHash(PersistedChain(e, id).versions)
    /\ Verify(PersistedChain(e, id).chainHash, PersistedChain(e, id).chainSig)

\* C31: when a file whose stored chain has versions but lacks chainHash and
\* chainSig is accessed by a load that succeeds, the chain stored under the
\* file's chain id afterwards carries a matching chainHash and a verifying
\* chainSig, and no other key of the chains store is written.
C31_LegacyChainUpgradedInPlace ==
    \A f \in DOMAIN metadata, v \in LoadVersions, validate \in BOOLEAN :
        LET id == metadata[f].chainId
            out == Load(Eng, f, v, validate, "none")
        IN (/\ auth
            /\ metadata[f].activeKey # NoKey
            /\ IsLegacy(GetChain(Eng, id).chain)
            /\ out.res.ok)
           => /\ StoredChainSealed(out.eng, id)
              /\ \A other \in (DOMAIN out.eng.chainsStore) \cup (DOMAIN chainsStore) :
                    other # id =>
                       /\ Has(chainsStore, other) /\ Has(out.eng.chainsStore, other)
                       /\ out.eng.chainsStore[other] = chainsStore[other]

\* C32: load(f) for a name that has no record in the index, or whose record
\* has activeKey null, returns empty bytes with the record's MIME type when
\* a record exists and "text/markdown" when none exists, and changes no state.
C32_AbsentLoadsEmptyWithRecordMime ==
    \A f \in Names, v \in LoadVersions, validate \in BOOLEAN :
        LET out == Load(Eng, f, v, validate, "none")
        IN (auth /\ (~Has(metadata, f) \/ metadata[f].activeKey = NoKey))
           => /\ out.res.ok
              /\ out.res.bytes = ""
              /\ out.res.mime = IF Has(metadata, f) THEN metadata[f].mime
                                ELSE "text/markdown"
              /\ out.eng = Eng

\* C33: a successful save to an existing file removes from the file's
\* persisted chain only the oldest entries beyond versionLimit: the chain
\* afterwards is the end of the previous entries followed by the new entry,
\* also when the stored chain cannot be decrypted, its signature does not
\* verify, or the chain is not in the cache.
C33_SaveKeepsHistory ==
    \A f \in DOMAIN metadata, bytes \in Contents, mime \in Mimes,
       limit \in VersionLimits :
        LET id == metadata[f].chainId
            out == Save(Eng, f, bytes, mime, limit, "none")
            old == PersistedChain(Eng, id).versions
            new == PersistedChain(out.eng, id).versions
            keep == IF limit < Len(old) + 1 THEN limit ELSE Len(old) + 1
        IN (/\ auth
            /\ Has(chainsStore, id) /\ CanDecrypt(chainsStore[id])
            /\ out.res.ok /\ ~out.res.unchanged)
           => /\ Len(new) = keep
              /\ \A i \in 1..keep :
                    Len(old) + 1 - keep + i <= Len(old) =>
                        new[i] = old[Len(old) + 1 - keep + i]

\* C34: an init that fails leaves the engine's state as it was, so that in
\* every state in which the engine is authenticated its keys, store handle,
\* metadata index and chain manager belong to the same vault.
C34_AuthenticatedStateOfOneVault ==
    globals.auth =>
        /\ globals.keys.dbName = globals.db
        /\ globals.index = globals.db
        /\ globals.chainKey = globals.keys.encKey

\* call k of sendToWorker has been given an id; its promise is settled
RequestIssued(k) == k <= Len(manager.requests) /\ manager.requests[k].id # 0
RequestSettled(k) ==
    /\ RequestIssued(k)
    /\ manager.requests[k].phase \in {"fulfilled", "rejected"}

RequestsSettleAtMostOnce ==
    \A k \in Requests :
        RequestIssued(k) =>
            LET r == manager.requests[k]
            IN /\ \A j \in Requests \ {k} :
                     RequestIssued(j) => manager.requests[j].id # r.id
               /\ r.settles = IF r.phase = "pending" THEN 0 ELSE 1
               /\ r.phase # "pending" =>
                     /\ ~Has(manager.pendingRequests, r.id)
                     /\ k \notin manager.timeouts
               /\ r.phase = "pending" =>
                     /\ Has(manager.pendingRequests, r.id)
                     /\ manager.pendingRequests[r.id] = k
                     /\ k \in manager.timeouts

\* C35: every request issued through sendToWorker gets an id no other
\* request has and its promise is eventually settled, exactly once (by the
\* response with its id, the timeout, a worker error or terminate); once
\* settled, pendingRequests has no entry for the id and a later response,
\* timeout or terminate has no effect; a progress message settles nothing.
C35_RequestsSettleOnce ==
    /\ []RequestsSettleAtMostOnce
    /\ \A k \in Requests : RequestIssued(k) ~> RequestSettled(k)

\* a response arrives for a request that its timeout, a worker error or
\* terminate has settled before
C35_LateResponseIgnored ==
    /\ last.op = "message" /\ last.result = "unknown id"
    /\ \E k \in Requests :
          /\ RequestSettled(k)
          /\ manager.requests[k].answered
          /\ manager.requests[k].phase = "rejected"
          /\ manager.requests[k].settles = 1

\* C36: for any interleaving of initWorker / sendToWorker calls on one
\* manager at most one worker is alive, and it is the manager's; an
\* initialisation constructs at most RETRIES times; after terminate() the
\* manager holds no worker until a later sendToWorker call starts an
\* initialisation, also when terminate() was called during a back-off: a
\* worker the manager holds was built by the initialisation readyPromise
\* stands for.
C36_OneWorkerPerManager ==
    /\ Cardinality(manager.workers) <= 1
    /\ manager.worker # 0 => manager.workers = {manager.worker}
    /\ \A n \in 1..Len(manager.inits) : manager.inits[n].attempt <= RETRIES
    /\ manager.worker # 0 =>
          /\ manager.readyPromise # 0
          /\ manager.inits[manager.readyPromise].phase = "resolved"

\* C37: after rename(newName) of a file instance has succeeded (the property
\* instance.filename is the new name), the later save(), load() and delete()
\* of the instance operate on the new name: the vault, which only this
\* instance writes, holds no record under the name the instance was created
\* with, and a save of edited content stores it under the new name.
C37_RenamedInstanceUsesNewName ==
    (file.created /\ file.filename # InstName) =>
        /\ ~Has(metadata, InstName)
        /\ (last.op = "save reply" /\ ~file.dirty) =>
              /\ Has(metadata, file.filename)
              /\ Load(Eng, file.filename, Null, FALSE, "none").res.bytes = file.bytes

\* the head blob of a file is missing: the chain's last entry names a key
\* the files collection does not hold
HeadBlobMissing(e, filename) ==
    /\ Has(e.metadata, filename)
    /\ e.metadata[filename].activeKey # NoKey
    /\ LET chain == GetChain(e, e.metadata[filename].chainId).chain
       IN /\ chain.versions # <<>>
          /\ ~Has(e.filesStore, chain.versions[Len(chain.versions)].key)

\* what a load must leave alone: the index in memory and persisted, the
\* persisted chains and the chain of every file as getChain answers it, the blobs
VaultState(e) ==
    [metadata |-> e.metadata, metaStore |-> e.metaStore,
     chainsStore |-> e.chainsStore, filesStore |-> e.filesStore,
     chains |-> [f \in DOMAIN e.metadata |->
                    GetChain(e, e.metadata[f].chainId).chain]]

\* C38: with validate unset, a load with an explicitly requested version
\* (found or not, blob present or missing, verification passing or failing)
\* and a latest load whose head blob is present leave the metadata index in
\* memory and persisted, all chains and all blobs unchanged; only a latest
\* load whose head blob is missing may change vault state.
C38_LoadWithoutValidateChangesNothing ==
    \A f \in Names, v \in LoadVersions, fault \in MetaFaults :
        (auth /\ (v # Null \/ ~HeadBlobMissing(Eng, f)))
            => VaultState(Load(Eng, f, v, FALSE, fault).eng) = VaultState(Eng)

\* a load has been handled in a vault where a file has lost the blob of a
\* version: the load of that version is answered "corrupted", and the load of
\* another version of the file succeeds
C38_ExplicitLoadOfMissingBlob ==
    /\ last.op = "load"
    /\ \E f \in Names, v, w \in 1..MaxKeys :
          /\ last.name = f
          /\ Load(Eng, f, v, FALSE, "none").res.failedAt = "blob"
          /\ Load(Eng, f, w, FALSE, "none").res.ok
          /\ Load(Eng, f, w, FALSE, "none").res.bytes # ""

\* the keys the version entries of the persisted chain of f name
ChainKeysOf(e, f) ==
    {ChainOf(e, f).versions[i].key : i \in 1..Len(ChainOf(e, f).versions)} \ {NoKey}

\* C39: the quick integrity check of initVault, run on a vault written by
\* save, deletes no blob that a version entry of the chain of a file in the
\* index references, removes from the index no file that has a version whose
\* blob exists, and deletes only blobs that no chain entry and no activeKey
\* references.
C39_QuickCheckKeepsReferenced ==
    LET opened == [Eng EXCEPT !.auth = TRUE, !.metadata = LoadMetadata(Eng),
                              !.cache = <<>>]
        out == InitVaultOf(Eng, "none")
        inChains == UNION {ChainKeysOf(opened, f) : f \in DOMAIN opened.metadata}
        active == {opened.metadata[f].activeKey : f \in DOMAIN opened.metadata}
        deleted == (DOMAIN filesStore) \ (DOMAIN out.filesStore)
    IN /\ deleted \cap inChains = {}
       /\ deleted \cap active = {}
       /\ \A f \in DOMAIN opened.metadata :
             ChainKeysOf(opened, f) \cap DOMAIN filesStore # {}
                => Has(out.metadata, f)

\* C40: orphansRemoved in the answer of the integrity check is the number of
\* blob keys the check deleted from the files collection, and filesRemoved
\* holds exactly the names of the files the check removed from the index.
C40_OrphansRemovedCountsDeleted ==
    auth =>
        \A fault \in CheckFaults :
            LET out == PerformFullIntegrityCheck(Eng, fault)
                deleted == (DOMAIN filesStore) \ (DOMAIN out.eng.filesStore)
            IN /\ out.res.orphansRemoved = Cardinality(deleted)
               /\ out.res.filesRemoved = (DOMAIN metadata) \ (DOMAIN out.eng.metadata)

====
